---- MODULE Spec2Model ----
(***************************************************************************)
(* AssetTrack IT Portal: the flat-table asset repository                   *)
(* (services/storageService.ts), the change-history diff it applies on     *)
(* update, and the App handlers that call it (App.tsx).                    *)
(*                                                                         *)
(* A repository call is a process: it suspends at every request it sends   *)
(* to the table, and another call may run in between.  The table applies a *)
(* request and the call's continuation runs in one step.                   *)
(*                                                                         *)
(* A stored item is a record; the fields model, country and comments are   *)
(* plain scalar fields that the code treats exactly like status and siteID *)
(* and are left out.  A key that a JavaScript object lacks is a key that   *)
(* is not in the DOMAIN of the record.                                     *)
(***************************************************************************)
EXTENDS Integers, Sequences, FiniteSets, TLC

VARIABLES
  hasCreds,      \* ACCESS_KEY and SECRET_KEY are both set
  docClient,     \* the lazily built document client exists
  table,         \* the DynamoDB table: serialNumber -> item
  now,           \* Date.now()
  call,          \* the repository calls, one per caller
  writes,        \* number of requests the table has applied
  removed,       \* serial numbers that deleteAssets removed and addAssets has not stored again
  assets,        \* App: the in-memory asset list
  notification,  \* App: the notification shown ("none", "success", "error")
  isSaving,      \* App: the saving overlay is shown
  isLoading,     \* App: a load is running
  isConnected,   \* App: "null", "true" or "false"
  view,          \* App: the current view
  handler,       \* App: the handlers awaiting a repository call
  hasBucket,     \* grouped files: the bucket name is set
  hasKeys,       \* grouped files: ACCESS_KEY and SECRET_KEY are both set
  client,        \* grouped files: the lazily built S3 client exists
  objects,       \* grouped files: the bucket, file key -> parsed body
  s3call,        \* grouped files: the repository calls, one per caller
  form,          \* AssetForm: error, bulkPreview, isProcessing, and what its last step read, produced and submitted
  assetList      \* AssetList: searchTerm, statusFilter, itemsPerPage, currentPage, and which of the two components is bundled

repoVars == <<hasCreds, docClient, table, now, call, writes, removed>>
appVars == <<assets, notification, isSaving, isLoading, isConnected, view, handler, form, assetList>>
s3Vars == <<hasBucket, hasKeys, client, objects, s3call>>
vars == <<hasCreds, docClient, table, now, call, writes, removed,
          assets, notification, isSaving, isLoading, isConnected, view, handler,
          hasBucket, hasKeys, client, objects, s3call, form, assetList>>

(***************************************************************************)
(* Bounds                                                                  *)
(***************************************************************************)
NumCallers == 2
\* the page-size select offers PageUnit, 2 * PageUnit, ... (50, 100, ... in the
\* serial-number component, 25, 50, ... in the id component)
PageUnit == 2
MaxPageOptions == 2
\* the number of records of the inventory the list is shown
MaxListed == 5
\* the longest record list the Dashboard is given
MaxShown == 3
MaxTime == 2
MaxKeys == 2
NumSerials == 2
MaxItems == 26

(***************************************************************************)
(* Program constants                                                       *)
(***************************************************************************)
BatchSize == 25

Callers == 1..NumCallers
\* serial numbers, in the order a Scan returns them
SerialNames ==
  <<"S01", "S02", "S03", "S04", "S05", "S06", "S07", "S08", "S09", "S10",
    "S11", "S12", "S13", "S14", "S15", "S16", "S17", "S18", "S19", "S20",
    "S21", "S22", "S23", "S24", "S25", "S26", "S27", "S28", "S29", "S30",
    "S31", "S32", "S33", "S34", "S35", "S36", "S37", "S38", "S39", "S40",
    "S41", "S42", "S43", "S44", "S45", "S46", "S47", "S48", "S49", "S50",
    "S51", "S52", "S53", "S54", "S55", "S56", "S57", "S58", "S59", "S60">>
Serials == {SerialNames[i] : i \in 1..NumSerials}
Statuses == {"Normal", "RMA Requested"}
Sites == {"LDN01", "PHX01"}
Null == "null"
Undefined == "undefined"
Normal == "Normal"

(***************************************************************************)
(* JavaScript objects                                                      *)
(***************************************************************************)
HasKey(obj, k) == k \in DOMAIN obj

Get(obj, k) == IF HasKey(obj, k) THEN obj[k] ELSE Undefined

\* asset.history || dflt : an absent history is falsy, an array (even an
\* empty one) is truthy
HistoryOr(obj, dflt) == IF HasKey(obj, "history") THEN obj.history ELSE dflt

\* an update payload is an object literal: its entries in insertion order
Keys(updates) == {updates[i][1] : i \in DOMAIN updates}

ValueOf(updates, k) == updates[CHOOSE i \in DOMAIN updates : updates[i][1] = k][2]

(***************************************************************************)
(* The change-history diff of updateAsset and bulkUpdateAssets             *)
(***************************************************************************)
SeedEntry(t) ==
  [timestamp |-> t, field |-> "System", oldValue |-> Null,
   newValue |-> "Initial Asset Registration"]

Excluded == {"history", "createdAt"}

\* a diff that forgets to compare the values
ChangedAlways(asset, key, value) == key \notin Excluded

\* the test of the forEach body: does this entry of the payload add an entry
Changed(asset, key, value) ==
  /\ key \notin Excluded
  /\ Get(asset, key) # value

RECURSIVE DiffFrom(_, _, _, _)
DiffFrom(asset, updates, i, t) ==
  LET
      DiffEntry(asset0, key, value, t0) ==
        LET
            FieldLabel == IF key = "siteID" THEN "Site Transfer" ELSE key
        IN
        [timestamp |-> t0, field |-> FieldLabel,
         oldValue |-> Get(asset0, key), newValue |-> value]
  IN
  IF i > Len(updates) THEN <<>>
  ELSE (IF Changed(asset, updates[i][1], updates[i][2])
          THEN <<DiffEntry(asset, updates[i][1], updates[i][2], t)>>
          ELSE <<>>)
       \o DiffFrom(asset, updates, i + 1, t)

\* a history that also logs the call itself
NewHistoryLogged(asset, updates, t) ==
  HistoryOr(asset, <<>>) \o DiffFrom(asset, updates, 1, t)
  \o <<[timestamp |-> t, field |-> "System", oldValue |-> Null, newValue |-> "Updated"]>>

NewHistory(asset, updates, t) ==
  HistoryOr(asset, <<>>) \o DiffFrom(asset, updates, 1, t)

\* { ...asset, history: newHistory, ...updates }: the payload is spread last
SpreadPayloadLast(asset, updates, newHistory) ==
  [k \in (DOMAIN asset) \cup Keys(updates) \cup {"history"} |->
     IF k \in Keys(updates) THEN ValueOf(updates, k)
     ELSE IF k = "history" THEN newHistory
     ELSE asset[k]]

\* { ...asset, ...updates, history: newHistory }
Spread(asset, updates, newHistory) ==
  [k \in (DOMAIN asset) \cup Keys(updates) \cup {"history"} |->
     IF k = "history" THEN newHistory
     ELSE IF k \in Keys(updates) THEN ValueOf(updates, k)
     ELSE asset[k]]

UpdatedAsset(asset, updates, t) == Spread(asset, updates, NewHistory(asset, updates, t))

(***************************************************************************)
(* addAssets: the item of one PutRequest                                   *)
(***************************************************************************)
PutItem(asset, t) ==
  [k \in (DOMAIN asset) \cup {"history"} |->
     IF k = "history" THEN HistoryOr(asset, <<SeedEntry(t)>>) ELSE asset[k]]

\* batches that leave out the items after the last full batch
RECURSIVE ChunksOfFullSize(_, _)
ChunksOfFullSize(list, i) ==
  IF i + BatchSize - 1 > Len(list) THEN <<>>
  ELSE <<SubSeq(list, i, i + BatchSize - 1)>> \o ChunksOfFullSize(list, i + BatchSize)

\* the batches of addAssets and deleteAssets: slices of BatchSize items
RECURSIVE Chunks(_, _)
Chunks(list, i) ==
  IF i > Len(list) THEN <<>>
  ELSE <<SubSeq(list, i, IF i + BatchSize - 1 < Len(list) THEN i + BatchSize - 1 ELSE Len(list))>>
       \o Chunks(list, i + BatchSize)

(***************************************************************************)
(* fetchAssets: the mapping applied to every scanned item                  *)
(***************************************************************************)
FetchedItem(item) ==
  [k \in (DOMAIN item) \cup {"status", "history"} |->
     IF k = "status" THEN (IF HasKey(item, "status") /\ item.status # "" THEN item.status ELSE Normal)
     ELSE IF k = "history" THEN HistoryOr(item, <<>>)
     ELSE item[k]]

(***************************************************************************)
(* The table                                                               *)
(***************************************************************************)
TablePut(tbl, item) ==
  [s \in (DOMAIN tbl) \cup {item.serialNumber} |->
     IF s = item.serialNumber THEN item ELSE tbl[s]]

TableDelete(tbl, key) == [s \in (DOMAIN tbl) \ {key} |-> tbl[s]]

RECURSIVE TablePutAll(_, _, _)
TablePutAll(tbl, items, i) ==
  IF i > Len(items) THEN tbl ELSE TablePutAll(TablePut(tbl, items[i]), items, i + 1)

RECURSIVE TableDeleteAll(_, _, _)
TableDeleteAll(tbl, keys, i) ==
  IF i > Len(keys) THEN tbl ELSE TableDeleteAll(TableDelete(tbl, keys[i]), keys, i + 1)

(***************************************************************************)
(* Inputs                                                                  *)
(***************************************************************************)

\* what AssetForm hands to onAddAssets: no history key
FormDraft(serial, t) ==
  [serialNumber |-> serial, status |-> Normal, siteID |-> "LDN01", createdAt |-> t]

\* the payloads of at most n keys, no key twice
PayloadsUpTo(n) ==
  LET
      PayloadEntries ==
        LET
            PayloadKeys == {"status", "siteID", "serialNumber", "createdAt", "history"}
        IN
        LET
            PayloadValues(key) ==
              LET
                  Times == 1..MaxTime
              IN
              CASE key = "status" -> Statuses
                [] key = "siteID" -> Sites
                [] key = "serialNumber" -> Serials
                [] key = "createdAt" -> Times
                [] key = "history" -> {<<>>}
        IN
                        UNION {{<<k, v>> : v \in PayloadValues(k)} : k \in PayloadKeys}
  IN
  {u \in UNION {[1..m -> PayloadEntries] : m \in 0..n} :
     \A i, j \in DOMAIN u : i # j => u[i][1] # u[j][1]}

Payloads == PayloadsUpTo(MaxKeys)

\* an item as addAssets stores a form draft
StoredDraft(serial, t) ==
  [serialNumber |-> serial, status |-> Normal, siteID |-> "LDN01", createdAt |-> t,
   history |-> <<SeedEntry(t)>>]

\* tables left by earlier sessions: nothing, or form drafts added at time 1
EarlierTables ==
  {[s \in stored |-> StoredDraft(s, 1)] : stored \in {{}, {SerialNames[1]}}}

(***************************************************************************)
(* Repository calls                                                        *)
(***************************************************************************)
IdleCall ==
  [op |-> "none", pc |-> "idle", result |-> "none", error |-> "",
   serials |-> <<>>, updates |-> <<>>, input |-> <<>>,
   read |-> <<>>, merged |-> <<>>, reqs |-> <<>>, value |-> <<>>, seen |-> 0]

IdleHandler == [kind |-> "none"]

CredentialsMissing == "AWS Credentials missing. Check environment variables."
AssetNotFound == "Asset not found."
BackendError == "backend error"

Rejected(c, msg) == [c EXCEPT !.pc = "done", !.result = "rejected", !.error = msg]

InFlight(c) == {i \in DOMAIN c.reqs : c.reqs[i].st = "inflight"}

\* Promise.all over the requests of the call: rejected with the first failure,
\* resolved when every request has succeeded
Settle(c) ==
  IF c.result # "pending" \/ c.pc # "sent" THEN c
  ELSE IF \E i \in DOMAIN c.reqs : c.reqs[i].st = "failed" THEN Rejected(c, BackendError)
  ELSE IF \A i \in DOMAIN c.reqs : c.reqs[i].st = "ok"
         THEN [c EXCEPT !.pc = "done", !.result = "resolved"]
  ELSE c

PutRequest(item) == [kind |-> "Put", item |-> item, st |-> "inflight", at |-> 0]

\* a loop that sends the first batch only and waits for its answer
AddRequestsInTurn(newAssets, t) ==
  [b \in {b \in DOMAIN Chunks(newAssets, 1) : b = 1} |->
     [kind |-> "BatchPut",
      items |-> [j \in DOMAIN Chunks(newAssets, 1)[b] |-> PutItem(Chunks(newAssets, 1)[b][j], t)],
      st |-> "inflight", at |-> 0]]

\* addAssets: batches.map(async batch => client.send(BatchWrite of PutRequests))
AddRequests(newAssets, t) ==
  [b \in DOMAIN Chunks(newAssets, 1) |->
     [kind |-> "BatchPut",
      items |-> [j \in DOMAIN Chunks(newAssets, 1)[b] |-> PutItem(Chunks(newAssets, 1)[b][j], t)],
      st |-> "inflight", at |-> 0]]

\* the start of a call, up to its first suspension
BeginCall(c, started) ==
  LET
      \* getDocClient throws when the client is not built yet and a credential is missing
      GetDocClientThrows == ~docClient /\ ~hasCreds
  IN
  /\ call[c].pc = "idle"
  /\ IF GetDocClientThrows
       THEN /\ call' = [call EXCEPT ![c] = Rejected(started, CredentialsMissing)]
            /\ UNCHANGED docClient
       ELSE /\ call' = [call EXCEPT ![c] = Settle(started)]
            /\ docClient' = TRUE
  /\ UNCHANGED <<hasCreds, table, now, writes, removed, s3Vars>>

StartFetchAssets(c) ==
  BeginCall(c, [IdleCall EXCEPT !.op = "fetchAssets", !.pc = "scan", !.result = "pending"])

StartAddAssets(c, newAssets) ==
  BeginCall(c, [IdleCall EXCEPT !.op = "addAssets", !.pc = "sent", !.result = "pending",
                                !.input = newAssets, !.reqs = AddRequests(newAssets, now)])

StartUpdateAsset(c, serialNumber, updates) ==
  BeginCall(c, [IdleCall EXCEPT !.op = "updateAsset", !.pc = "scan", !.result = "pending",
                                !.serials = <<serialNumber>>, !.updates = updates])

StartBulkUpdateAssets(c, serials, updates) ==
  BeginCall(c, [IdleCall EXCEPT !.op = "bulkUpdateAssets", !.pc = "scan", !.result = "pending",
                                !.serials = serials, !.updates = updates])

StartDeleteAssets(c, assetsToDelete) ==
  LET
      \* deleteAssets: batches.map(async batch => client.send(BatchWrite of DeleteRequests))
      DeleteRequests ==
        [b \in DOMAIN Chunks(assetsToDelete, 1) |->
           [kind |-> "BatchDelete",
            keys |-> [j \in DOMAIN Chunks(assetsToDelete, 1)[b] |-> Chunks(assetsToDelete, 1)[b][j].serialNumber],
            st |-> "inflight", at |-> 0]]
  IN
  BeginCall(c, [IdleCall EXCEPT !.op = "deleteAssets", !.pc = "sent", !.result = "pending",
                                !.input = assetsToDelete, !.reqs = DeleteRequests])

\* the stored serial numbers among the given ones, in Scan order
RECURSIVE ScanOrder(_, _)
ScanOrder(keys, i) ==
  IF i > Len(SerialNames) THEN <<>>
  ELSE (IF SerialNames[i] \in keys THEN <<SerialNames[i]>> ELSE <<>>) \o ScanOrder(keys, i + 1)

Elements(list) == {list[i] : i \in DOMAIN list}

\* an update that stores the payload as a new item when the asset is missing
AfterScanUpsert(c, items, t) ==
  IF c.serials[1] \notin DOMAIN items
    THEN [c EXCEPT !.pc = "sent", !.seen = writes,
                   !.merged = <<Spread([serialNumber |-> c.serials[1]], c.updates, <<>>)>>,
                   !.reqs = <<PutRequest(Spread([serialNumber |-> c.serials[1]], c.updates, <<>>))>>]
    ELSE [c EXCEPT !.pc = "sent", !.seen = writes,
                   !.read = <<items[c.serials[1]]>>,
                   !.merged = <<UpdatedAsset(items[c.serials[1]], c.updates, t)>>,
                   !.reqs = <<PutRequest(UpdatedAsset(items[c.serials[1]], c.updates, t))>>]

\* updateAsset after the scan: find, diff, merge, first write
AfterScanUpdate(c, items, t) ==
  LET
      DeleteRequest(key) == [kind |-> "Delete", key |-> key, st |-> "inflight", at |-> 0]
      \* updateAsset: a payload that changes the serial number deletes the old key first
      Renames(serialNumber, updates) ==
        /\ "serialNumber" \in Keys(updates)
        /\ ValueOf(updates, "serialNumber") # ""
        /\ ValueOf(updates, "serialNumber") # serialNumber
  IN
  IF c.serials[1] \notin DOMAIN items THEN Rejected(c, AssetNotFound)
  ELSE [c EXCEPT !.pc = "sent", !.seen = writes,
                 !.read = <<items[c.serials[1]]>>,
                 !.merged = <<UpdatedAsset(items[c.serials[1]], c.updates, t)>>,
                 !.reqs = IF Renames(c.serials[1], c.updates)
                            THEN <<DeleteRequest(c.serials[1])>>
                            ELSE <<PutRequest(UpdatedAsset(items[c.serials[1]], c.updates, t))>>]

\* the Scan of fetchAssets answers
ScanReturn(c) ==
  LET
      ScanResult(tbl) == [s \in DOMAIN tbl |-> FetchedItem(tbl[s])]
      \* fetchAssets after the scan: the mapped items, as a list
      AfterScanFetch(c0, items) ==
        [c0 EXCEPT !.pc = "done", !.result = "resolved",
                  !.value = [i \in DOMAIN ScanOrder(DOMAIN items, 1) |-> items[ScanOrder(DOMAIN items, 1)[i]]]]
      \* bulkUpdateAssets after the scan: one Put per target, all sent at once
      AfterScanBulk(c0, items, t) ==
        Settle([c0 EXCEPT !.pc = "sent", !.seen = writes,
                         !.read = [i \in DOMAIN ScanOrder(DOMAIN items \cap Elements(c0.serials), 1) |->
                                     items[ScanOrder(DOMAIN items \cap Elements(c0.serials), 1)[i]]],
                         !.merged = [i \in DOMAIN ScanOrder(DOMAIN items \cap Elements(c0.serials), 1) |->
                                       UpdatedAsset(items[ScanOrder(DOMAIN items \cap Elements(c0.serials), 1)[i]], c0.updates, t)],
                         !.reqs = [i \in DOMAIN ScanOrder(DOMAIN items \cap Elements(c0.serials), 1) |->
                                     PutRequest(UpdatedAsset(items[ScanOrder(DOMAIN items \cap Elements(c0.serials), 1)[i]], c0.updates, t))]])
  IN
  /\ call[c].pc = "scan"
  /\ call' = [call EXCEPT ![c] =
       CASE call[c].op = "updateAsset" -> AfterScanUpdate(call[c], ScanResult(table), now)
         [] call[c].op = "bulkUpdateAssets" -> AfterScanBulk(call[c], ScanResult(table), now)
         [] call[c].op = "fetchAssets" -> AfterScanFetch(call[c], ScanResult(table))]
  /\ UNCHANGED <<hasCreds, docClient, table, now, writes, removed, s3Vars>>

\* the Scan fails: fetchAssets rethrows, and so does its caller
ScanFail(c) ==
  /\ call[c].pc = "scan"
  /\ call' = [call EXCEPT ![c] = Rejected(call[c], BackendError)]
  /\ UNCHANGED <<hasCreds, docClient, table, now, writes, removed, s3Vars>>

\* the table applies request i of call c and answers
RequestApply(c, i) ==
  LET
      \* the serial numbers deleteAssets has removed and addAssets has not brought back
      RemovedAfter(rem, tbl, req) ==
        CASE req.kind = "BatchDelete" -> rem \cup (Elements(req.keys) \cap DOMAIN tbl)
          [] req.kind = "BatchPut" -> rem \ {req.items[j].serialNumber : j \in DOMAIN req.items}
          [] OTHER -> rem
      \* what the call does when request i has succeeded as write number n
      AfterRequest(c0, i0, n) ==
        IF c0.op = "updateAsset"
          THEN IF c0.reqs[i0].kind = "Delete"
                 THEN [c0 EXCEPT !.reqs = Append([c0.reqs EXCEPT ![i0].st = "ok", ![i0].at = n],
                                                PutRequest(c0.merged[1]))]
                 ELSE [c0 EXCEPT !.reqs[i0].st = "ok", !.reqs[i0].at = n,
                                !.pc = "done", !.result = "resolved"]
          ELSE Settle([c0 EXCEPT !.reqs[i0].st = "ok", !.reqs[i0].at = n])
      \* the effect of one request on the table
      ApplyRequest(tbl, req) ==
        CASE req.kind = "Put" -> TablePut(tbl, req.item)
          [] req.kind = "Delete" -> TableDelete(tbl, req.key)
          [] req.kind = "BatchPut" -> TablePutAll(tbl, req.items, 1)
          [] req.kind = "BatchDelete" -> TableDeleteAll(tbl, req.keys, 1)
  IN
  /\ i \in InFlight(call[c])
  /\ table' = ApplyRequest(table, call[c].reqs[i])
  /\ writes' = writes + 1
  /\ removed' = RemovedAfter(removed, table, call[c].reqs[i])
  /\ call' = [call EXCEPT ![c] = AfterRequest(call[c], i, writes + 1)]
  /\ UNCHANGED <<hasCreds, docClient, now, s3Vars>>

\* request i of call c fails and leaves the table as it is
RequestFail(c, i) ==
  /\ i \in InFlight(call[c])
  /\ call' = [call EXCEPT ![c] =
       IF call[c].result = "pending"
         THEN Rejected([call[c] EXCEPT !.reqs[i].st = "failed"], BackendError)
         ELSE [call[c] EXCEPT !.reqs[i].st = "failed"]]
  /\ UNCHANGED <<hasCreds, docClient, table, now, writes, removed, s3Vars>>

Tick ==
  /\ now < MaxTime
  /\ now' = now + 1
  /\ UNCHANGED <<hasCreds, docClient, table, call, writes, removed, s3Vars>>

(***************************************************************************)
(* The repository under arbitrary callers                                  *)
(***************************************************************************)
\* before: the bucket as it was when the call started
IdleS3Call ==
  [op |-> "none", result |-> "none", error |-> "", input |-> <<>>, tasks |-> <<>>, before |-> <<>>,
   listing |-> FALSE, value |-> <<>>]

\* the flat-table build has no grouped-file service
NoS3 ==
  /\ hasBucket = FALSE
  /\ hasKeys = FALSE
  /\ client = FALSE
  /\ objects = <<>>
  /\ s3call = [c \in Callers |-> IdleS3Call]

\* AssetForm as it mounts; rows, produced and submitted record its last import
IdleForm ==
  [error |-> "none", bulkPreview |-> <<>>, isProcessing |-> FALSE,
   last |-> "none", rows |-> <<>>, produced |-> <<>>, dropped |-> 0, submitted |-> <<>>, warned |-> 0]

\* AssetList as it mounts: useState('') / ('All') / (first page size) / (1)
IdleList(variant) ==
  [variant |-> variant, searchTerm |-> <<>>, statusFilter |-> "All",
   itemsPerPage |-> PageUnit, currentPage |-> 1]

InitApp ==
  /\ form = IdleForm
  /\ assetList = IdleList("serial")
  /\ assets = <<>>
  /\ notification = "none"
  /\ isSaving = FALSE
  /\ isLoading = TRUE
  /\ isConnected = "null"
  /\ view = "dashboard"
  /\ handler = [c \in Callers |-> IdleHandler]

Init ==
  /\ hasCreds \in BOOLEAN
  /\ docClient = FALSE
  /\ table \in EarlierTables
  /\ now = 1
  /\ call = [c \in Callers |-> IdleCall]
  /\ writes = 0
  /\ removed = {}
  /\ InitApp
  /\ NoS3

\* the payloads of the concurrent callers: one key, a value to record
ChangePayloads ==
  LET
      SinglePayloads == PayloadsUpTo(1)
  IN
                  {u \in SinglePayloads : Len(u) = 1 /\ u[1][1] # "history"}

addAssets(c) ==
  LET
      \* lists of at most n drafts with distinct serial numbers
      DraftLists(t, n) ==
        LET
            \* the drafts a caller of addAssets may pass: history absent, empty or imported
            DraftsAt ==
              LET
                  ImportedHistory ==
                    <<[timestamp |-> 1, field |-> "status", oldValue |-> "RMA Requested", newValue |-> Normal]>>
              IN
              LET
                  WithHistory(asset, h) ==
                    [k \in (DOMAIN asset) \cup {"history"} |-> IF k = "history" THEN h ELSE asset[k]]
              IN
              {FormDraft(s, t) : s \in Serials}
              \cup {WithHistory(FormDraft(s, t), h) : s \in Serials, h \in {<<>>, ImportedHistory}}
        IN
        {l \in UNION {[1..m -> DraftsAt] : m \in 0..n} :
           \A i, j \in DOMAIN l : i # j => l[i].serialNumber # l[j].serialNumber}
  IN
  /\ \E newAssets \in DraftLists(now, 1) : StartAddAssets(c, newAssets)
  /\ UNCHANGED appVars

updateAsset(c) ==
  /\ \E serialNumber \in Serials, updates \in ChangePayloads :
       StartUpdateAsset(c, serialNumber, updates)
  /\ UNCHANGED appVars

bulkUpdateAssets(c) ==
  /\ \E serials \in (SUBSET Serials) \ {{}}, updates \in ChangePayloads :
       StartBulkUpdateAssets(c, ScanOrder(serials, 1), updates)
  /\ UNCHANGED appVars

\* the caller passes assets it has fetched
deleteAssets(c) ==
  /\ \E serials \in (SUBSET Serials) \ {{}} :
       StartDeleteAssets(c, [i \in DOMAIN ScanOrder(serials, 1) |->
                               StoredDraft(ScanOrder(serials, 1)[i], 1)])
  /\ UNCHANGED appVars

Next ==
  \/ \E c \in Callers : addAssets(c)
  \/ \E c \in Callers : updateAsset(c)
  \/ \E c \in Callers : bulkUpdateAssets(c)
  \/ \E c \in Callers : deleteAssets(c)
  \/ \E c \in Callers : ScanReturn(c) /\ UNCHANGED appVars
  \/ \E c \in Callers : ScanFail(c) /\ UNCHANGED appVars
  \/ \E c \in Callers : \E i \in DOMAIN call[c].reqs : RequestApply(c, i) /\ UNCHANGED appVars
  \/ \E c \in Callers : \E i \in DOMAIN call[c].reqs : RequestFail(c, i) /\ UNCHANGED appVars
  \/ Tick /\ UNCHANGED appVars

Spec == Init /\ [][Next]_vars

(***************************************************************************)
(* One update call on a stored record, for every payload                   *)
(***************************************************************************)

InitDiff ==
  LET
      DiffTables ==
        LET
            \* records that an earlier session has already updated
            UpdatedRecords ==
              LET
                  EarlierChange ==
                    [timestamp |-> 1, field |-> "status", oldValue |-> Normal, newValue |-> "RMA Requested"]
              IN
              {[serialNumber |-> SerialNames[1], status |-> st, siteID |-> si, createdAt |-> 1,
                history |-> <<SeedEntry(1), EarlierChange>>] : st \in Statuses, si \in Sites}
        IN
        {[s \in {SerialNames[1]} |-> r] : r \in UpdatedRecords \cup {StoredDraft(SerialNames[1], 1)}}
        \cup {[s \in Serials |-> StoredDraft(s, 1)]}
  IN
  /\ hasCreds = TRUE
  /\ docClient = FALSE
  /\ table \in DiffTables
  /\ now = 1
  /\ call = [c \in Callers |-> IdleCall]
  /\ writes = 0
  /\ removed = {}
  /\ InitApp
  /\ NoS3

NextDiff ==
  \/ \E serialNumber \in Serials, updates \in Payloads :
       StartUpdateAsset(1, serialNumber, updates) /\ UNCHANGED appVars
  \/ \E serials \in {{SerialNames[1]}, Serials}, updates \in Payloads :
       StartBulkUpdateAssets(1, ScanOrder(serials, 1), updates) /\ UNCHANGED appVars
  \/ ScanReturn(1) /\ UNCHANGED appVars
  \/ ScanFail(1) /\ UNCHANGED appVars
  \/ \E i \in DOMAIN call[1].reqs : RequestApply(1, i) /\ UNCHANGED appVars
  \/ \E i \in DOMAIN call[1].reqs : RequestFail(1, i) /\ UNCHANGED appVars
  \/ Tick /\ UNCHANGED appVars

SpecDiff == InitDiff /\ [][NextDiff]_vars

(***************************************************************************)
(* The App: handlers around the repository calls (App.tsx)                 *)
(***************************************************************************)

\* assets.filter(a => serials.includes(a.serialNumber))
RECURSIVE Selected(_, _, _)
Selected(list, serials, i) ==
  IF i > Len(list) THEN <<>>
  ELSE (IF list[i].serialNumber \in serials THEN <<list[i]>> ELSE <<>>)
       \o Selected(list, serials, i + 1)

\* prev.filter(a => !serials.includes(a.serialNumber))
RECURSIVE Without(_, _, _)
Without(list, serials, i) ==
  IF i > Len(list) THEN <<>>
  ELSE (IF list[i].serialNumber \in serials THEN <<>> ELSE <<list[i]>>)
       \o Without(list, serials, i + 1)

ListedSerials(list) == {list[i].serialNumber : i \in DOMAIN list}

\* the App renders its views unless the loading screen is up
UiShown == ~(isLoading /\ Len(assets) = 0)

Finished(c) == call[c].result \in {"resolved", "rejected"}

\* useEffect: the first loadData(), and the Refresh button: loadData(true)
loadData(c, isManual) ==
  /\ handler[c] = IdleHandler
  /\ IF isManual THEN UiShown /\ ~isLoading
                 ELSE isConnected = "null" /\ \A d \in Callers : handler[d] = IdleHandler
  /\ StartFetchAssets(c)
  /\ handler' = [handler EXCEPT ![c] = [kind |-> "load", isManual |-> isManual]]
  /\ isLoading' = TRUE
  /\ UNCHANGED <<assets, notification, isSaving, isConnected, view, form, assetList>>

loadDataDone(c) ==
  /\ handler[c].kind = "load"
  /\ Finished(c)
  /\ IF call[c].result = "resolved"
       THEN /\ assets' = call[c].value
            /\ isConnected' = "true"
            /\ notification' = IF handler[c].isManual THEN "success" ELSE notification
       ELSE /\ isConnected' = "false"
            /\ notification' = "error"
            /\ UNCHANGED assets
  /\ isLoading' = FALSE
  /\ handler' = [handler EXCEPT ![c] = IdleHandler]
  /\ UNCHANGED <<isSaving, view>>
  /\ UNCHANGED <<repoVars, s3Vars, form, assetList>>

\* a handler that shows the new assets before the write has answered
handleAddAssetsEager(c, newAssets) ==
  /\ handler[c] = IdleHandler
  /\ UiShown
  /\ StartAddAssets(c, newAssets)
  /\ handler' = [handler EXCEPT ![c] = [kind |-> "add", newAssets |-> <<>>]]
  /\ isSaving' = TRUE
  /\ assets' = assets \o newAssets
  /\ UNCHANGED <<notification, isLoading, isConnected, view, form, assetList>>

handleAddAssets(c, newAssets) ==
  /\ handler[c] = IdleHandler
  /\ UiShown
  /\ StartAddAssets(c, newAssets)
  /\ handler' = [handler EXCEPT ![c] = [kind |-> "add", newAssets |-> newAssets]]
  /\ isSaving' = TRUE
  /\ UNCHANGED <<assets, notification, isLoading, isConnected, view, form, assetList>>

handleAddAssetsDone(c) ==
  /\ handler[c].kind = "add"
  /\ Finished(c)
  /\ IF call[c].result = "resolved"
       THEN /\ assets' = assets \o handler[c].newAssets
            /\ view' = "list"
            /\ notification' = "success"
       ELSE /\ notification' = "error"
            /\ UNCHANGED <<assets, view>>
  /\ isSaving' = FALSE
  /\ handler' = [handler EXCEPT ![c] = IdleHandler]
  /\ UNCHANGED <<isLoading, isConnected>>
  /\ UNCHANGED <<repoVars, s3Vars, form, assetList>>

handleUpdateAsset(c, serialNumber, updates) ==
  /\ handler[c] = IdleHandler
  /\ UiShown
  /\ StartUpdateAsset(c, serialNumber, updates)
  /\ handler' = [handler EXCEPT ![c] =
       [kind |-> "update", serialNumber |-> serialNumber, updates |-> updates]]
  /\ UNCHANGED <<assets, notification, isSaving, isLoading, isConnected, view, form, assetList>>

handleUpdateAssetDone(c) ==
  LET
      \* prev.map(a => a.serialNumber === serialNumber ? { ...a, ...updates } : a)
      Patched(list, serialNumber, updates) ==
        [i \in DOMAIN list |->
           IF list[i].serialNumber = serialNumber
             THEN [k \in (DOMAIN list[i]) \cup Keys(updates) |->
                     IF k \in Keys(updates) THEN ValueOf(updates, k) ELSE list[i][k]]
             ELSE list[i]]
  IN
  /\ handler[c].kind = "update"
  /\ Finished(c)
  /\ IF call[c].result = "resolved"
       THEN /\ assets' = Patched(assets, handler[c].serialNumber, handler[c].updates)
            /\ notification' = "success"
       ELSE /\ notification' = "error"
            /\ UNCHANGED assets
  /\ handler' = [handler EXCEPT ![c] = IdleHandler]
  /\ UNCHANGED <<isSaving, isLoading, isConnected, view>>
  /\ UNCHANGED <<repoVars, s3Vars, form, assetList>>

handleDeleteAssets(c, serials) ==
  /\ handler[c] = IdleHandler
  /\ UiShown
  /\ StartDeleteAssets(c, Selected(assets, serials, 1))
  /\ handler' = [handler EXCEPT ![c] = [kind |-> "delete", serials |-> serials]]
  /\ isSaving' = TRUE
  /\ UNCHANGED <<assets, notification, isLoading, isConnected, view, form, assetList>>

handleDeleteAssetsDone(c) ==
  /\ handler[c].kind = "delete"
  /\ Finished(c)
  /\ IF call[c].result = "resolved"
       THEN /\ assets' = Without(assets, handler[c].serials, 1)
            /\ notification' = "success"
       ELSE /\ notification' = "error"
            /\ UNCHANGED assets
  /\ isSaving' = FALSE
  /\ handler' = [handler EXCEPT ![c] = IdleHandler]
  /\ UNCHANGED <<isLoading, isConnected, view>>
  /\ UNCHANGED <<repoVars, s3Vars, form, assetList>>

\* showNotification: setTimeout(() => setNotification(null), 5000)
notificationTimeout ==
  /\ notification # "none"
  /\ notification' = "none"
  /\ UNCHANGED <<assets, isSaving, isLoading, isConnected, view, handler, assetList>>
  /\ UNCHANGED <<repoVars, s3Vars, form, assetList>>

\* the App at mount, or after an earlier successful load
InitAppSpec ==
  LET
      \* tables the App starts on
      AppTables ==
        {[s \in stored |-> StoredDraft(s, 1)] : stored \in {{SerialNames[1]}, Serials}}
      \* what a completed fetchAssets returns for a table
      FetchedList(tbl) ==
        [i \in DOMAIN ScanOrder(DOMAIN tbl, 1) |-> FetchedItem(tbl[ScanOrder(DOMAIN tbl, 1)[i]])]
  IN
  /\ table \in AppTables
  /\ now = 1
  /\ call = [c \in Callers |-> IdleCall]
  /\ writes = 0
  /\ removed = {}
  /\ notification = "none"
  /\ isSaving = FALSE
  /\ handler = [c \in Callers |-> IdleHandler]
  /\ form = IdleForm
  /\ assetList = IdleList("serial")
  /\ NoS3
  /\ \/ /\ hasCreds \in BOOLEAN
        /\ docClient = FALSE
        /\ assets = <<>>
        /\ isLoading = TRUE
        /\ isConnected = "null"
        /\ view = "dashboard"
     \/ /\ hasCreds = TRUE
        /\ docClient = TRUE
        /\ assets = FetchedList(table)
        /\ isLoading = FALSE
        /\ isConnected = "true"
        /\ view = "list"

NextApp ==
  LET
      \* the status select of a table row
      StatusPayloads == {<<<<"status", st>>>> : st \in Statuses}
  IN
  \/ \E c \in Callers, isManual \in BOOLEAN : loadData(c, isManual)
  \/ \E c \in Callers : loadDataDone(c)
  \/ \E c \in Callers, s \in Serials : handleAddAssets(c, <<FormDraft(s, now)>>)
  \/ \E c \in Callers : handleAddAssetsDone(c)
  \/ \E c \in Callers, s \in ListedSerials(assets), u \in StatusPayloads : handleUpdateAsset(c, s, u)
  \/ \E c \in Callers : handleUpdateAssetDone(c)
  \/ \E c \in Callers, sel \in (SUBSET ListedSerials(assets)) \ {{}} : handleDeleteAssets(c, sel)
  \/ \E c \in Callers : handleDeleteAssetsDone(c)
  \/ notificationTimeout
  \/ \E c \in Callers : ScanReturn(c) /\ UNCHANGED appVars
  \/ \E c \in Callers : ScanFail(c) /\ UNCHANGED appVars
  \/ \E c \in Callers : \E i \in DOMAIN call[c].reqs : RequestApply(c, i) /\ UNCHANGED appVars
  \/ \E c \in Callers : \E i \in DOMAIN call[c].reqs : RequestFail(c, i) /\ UNCHANGED appVars
  \/ Tick /\ UNCHANGED appVars

SpecApp == InitAppSpec /\ [][NextApp]_vars

\* the App of one client whose repository calls all succeed and who adds only
\* serial numbers that are neither stored, listed nor being added
NextQuiet ==
  LET
      StatusPayloads == {<<<<"status", st>>>> : st \in Statuses}
      BeingAdded == UNION {ListedSerials(handler[c].newAssets) : c \in {d \in Callers : handler[d].kind = "add"}}
      Fresh(s) == s \notin DOMAIN table /\ s \notin ListedSerials(assets) /\ s \notin BeingAdded
  IN
  \/ \E c \in Callers, isManual \in BOOLEAN : hasCreds /\ loadData(c, isManual)
  \/ \E c \in Callers : loadDataDone(c)
  \/ \E c \in Callers, s \in Serials : Fresh(s) /\ handleAddAssets(c, <<FormDraft(s, now)>>)
  \/ \E c \in Callers : handleAddAssetsDone(c)
  \/ \E c \in Callers, s \in ListedSerials(assets), u \in StatusPayloads : handleUpdateAsset(c, s, u)
  \/ \E c \in Callers : handleUpdateAssetDone(c)
  \/ \E c \in Callers, sel \in (SUBSET ListedSerials(assets)) \ {{}} : handleDeleteAssets(c, sel)
  \/ \E c \in Callers : handleDeleteAssetsDone(c)
  \/ notificationTimeout
  \/ \E c \in Callers : ScanReturn(c) /\ UNCHANGED appVars
  \/ \E c \in Callers : \E i \in DOMAIN call[c].reqs : RequestApply(c, i) /\ UNCHANGED appVars
  \/ Tick /\ UNCHANGED appVars

SpecQuiet == InitAppSpec /\ [][NextQuiet]_vars

(***************************************************************************)
(* The grouped-file repository: one S3 object per site                     *)
(***************************************************************************)

Whitespace == {" "}

RECURSIVE TrimStart(_)
TrimStart(str) == IF str # <<>> /\ Head(str) \in Whitespace THEN TrimStart(Tail(str)) ELSE str

RECURSIVE TrimEnd(_)
TrimEnd(str) ==
  IF str # <<>> /\ str[Len(str)] \in Whitespace THEN TrimEnd(SubSeq(str, 1, Len(str) - 1)) ELSE str

Trim(str) == TrimEnd(TrimStart(str))

\* siteId.trim().replace(/[^a-zA-Z0-9-_]/g, '_') between the prefix and '.json'
getSiteFileKey(siteId) ==
  LET
      \* the characters of [a-zA-Z0-9-_] that site IDs use
      WordChars == {"L", "P", "1", "-", "_"}
      ASSET_PREFIX == "assets/"
  IN
  <<ASSET_PREFIX, "site_">>
  \o [i \in DOMAIN Trim(siteId) |-> IF Trim(siteId)[i] \in WordChars THEN Trim(siteId)[i] ELSE "_"]
  \o <<".json">>

\* an asset of the grouped-file build
S3Asset(id, siteId, t) ==
  [id |-> id, serialNumber |-> id, siteId |-> siteId, status |-> Normal, createdAt |-> t]

\* JSON.stringify then JSON.parse of a list of objects: keys holding undefined are dropped
Json(list) ==
  LET
      \* the keys of an asset that hold a string (or undefined)
      TextKeys == {"id", "serialNumber", "model", "comments", "country", "status", "rmaStatus"}
  IN
  [i \in DOMAIN list |->
     [k \in {k \in DOMAIN list[i] : k \notin TextKeys \/ list[i][k] # Undefined} |-> list[i][k]]]

\* fetchAssetsByKey: a missing object gives []
fetchAssetsByKey(bucket, key) ==
  LET
      \* fetchAssetsByKey on an answered Get: status falls back to rmaStatus, then Normal
      ParsedItem(item) ==
        [k \in (DOMAIN item) \cup {"status"} |->
           IF k # "status" THEN item[k]
           ELSE IF Get(item, "status") \notin {Undefined, Null, ""} THEN item.status
           ELSE IF Get(item, "rmaStatus") \notin {Undefined, Null, ""} THEN item.rmaStatus
           ELSE Normal]
  IN
  IF key \in DOMAIN bucket THEN [i \in DOMAIN bucket[key] |-> ParsedItem(bucket[key][i])] ELSE <<>>

\* the keys of assetsBySite in insertion order
RECURSIVE SiteOrder(_, _)
SiteOrder(list, n) ==
  IF n = 0 THEN <<>>
  ELSE IF list[n].siteId \in Elements(SiteOrder(list, n - 1)) THEN SiteOrder(list, n - 1)
  ELSE Append(SiteOrder(list, n - 1), list[n].siteId)

OfSite(list, siteId) == SelectSeq(list, LAMBDA a : a.siteId = siteId)

\* the body a task puts after reading existingAssets
UpdatedAssets(op, task, existingAssets) ==
  IF op = "addAssets" THEN existingAssets \o task.assetsToAdd
  ELSE SelectSeq(existingAssets, LAMBDA a : a.id \notin Elements(task.idsToDelete))

RejectedS3(c, msg) == [c EXCEPT !.result = "rejected", !.error = msg]

\* Promise.all over the tasks of the call
SettleS3(c) ==
  IF c.result # "pending" THEN c
  ELSE IF \E g \in DOMAIN c.tasks : c.tasks[g].st = "failed" THEN RejectedS3(c, BackendError)
  ELSE IF \A g \in DOMAIN c.tasks : c.tasks[g].st = "ok" THEN [c EXCEPT !.result = "resolved"]
  ELSE c

\* the start of addAssets or deleteAssets, up to the Get of every group
BeginGrouped(c, op, input, tasks) ==
  LET
      \* getClient throws when the client is not built yet and a key is missing
      GetClientThrows == ~client /\ ~hasKeys
      S3CredentialsMissing == "S3 Credentials are not configured in environment variables."
      BucketMissing == "S3 Bucket name is missing."
  IN
  /\ s3call[c].result = "none"
  /\ IF ~hasBucket
       THEN /\ s3call' = [s3call EXCEPT ![c] =
                 RejectedS3([IdleS3Call EXCEPT !.op = op, !.input = input], BucketMissing)]
            /\ UNCHANGED client
       ELSE IF GetClientThrows
         THEN /\ s3call' = [s3call EXCEPT ![c] =
                   RejectedS3([IdleS3Call EXCEPT !.op = op, !.input = input], S3CredentialsMissing)]
              /\ UNCHANGED client
         ELSE /\ s3call' = [s3call EXCEPT ![c] =
                   SettleS3([IdleS3Call EXCEPT !.op = op, !.input = input, !.before = objects,
                                               !.result = "pending", !.tasks = tasks])]
              /\ client' = TRUE
  /\ UNCHANGED <<hasBucket, hasKeys, objects>>
  /\ UNCHANGED <<repoVars, appVars>>

groupedAddAssets(c, newAssets) ==
  LET
      \* addAssets: one read-modify-write per site
      AddTasks ==
        [g \in DOMAIN SiteOrder(newAssets, Len(newAssets)) |->
           [fileKey |-> getSiteFileKey(SiteOrder(newAssets, Len(newAssets))[g]),
            assetsToAdd |-> OfSite(newAssets, SiteOrder(newAssets, Len(newAssets))[g]),
            idsToDelete |-> <<>>, st |-> "get", body |-> <<>>]]
  IN
                                  BeginGrouped(c, "addAssets", newAssets, AddTasks)

groupedDeleteAssets(c, assetsToDelete) ==
  LET
      \* deleteAssets: one read-modify-write per site
      DeleteTasks ==
        [g \in DOMAIN SiteOrder(assetsToDelete, Len(assetsToDelete)) |->
           [fileKey |-> getSiteFileKey(SiteOrder(assetsToDelete, Len(assetsToDelete))[g]),
            assetsToAdd |-> <<>>,
            idsToDelete |-> [j \in DOMAIN OfSite(assetsToDelete, SiteOrder(assetsToDelete, Len(assetsToDelete))[g]) |->
                               OfSite(assetsToDelete, SiteOrder(assetsToDelete, Len(assetsToDelete))[g])[j].id],
            st |-> "get", body |-> <<>>]]
  IN
  BeginGrouped(c, "deleteAssets", assetsToDelete, DeleteTasks)

\* the Get of group g answers (with the object, or with 'no such key')
GetReturn(c, g) ==
  /\ g \in DOMAIN s3call[c].tasks
  /\ s3call[c].op \in {"addAssets", "deleteAssets"}
  /\ s3call[c].tasks[g].st = "get"
  /\ s3call' = [s3call EXCEPT ![c].tasks[g].st = "put",
                              ![c].tasks[g].body =
                                 Json(UpdatedAssets(s3call[c].op, s3call[c].tasks[g],
                                                    fetchAssetsByKey(objects, s3call[c].tasks[g].fileKey)))]
  /\ UNCHANGED <<hasBucket, hasKeys, client, objects>>
  /\ UNCHANGED <<repoVars, appVars>>

\* the Get of group g fails: fetchAssetsByKey logs the error and returns []
GetFail(c, g) ==
  /\ g \in DOMAIN s3call[c].tasks
  /\ s3call[c].op \in {"addAssets", "deleteAssets"}
  /\ s3call[c].tasks[g].st = "get"
  /\ s3call' = [s3call EXCEPT ![c].tasks[g].st = "put",
                              ![c].tasks[g].body =
                                 Json(UpdatedAssets(s3call[c].op, s3call[c].tasks[g], <<>>))]
  /\ UNCHANGED <<hasBucket, hasKeys, client, objects>>
  /\ UNCHANGED <<repoVars, appVars>>

\* the bucket stores the body of group g and answers
PutApply(c, g) ==
  /\ g \in DOMAIN s3call[c].tasks
  /\ s3call[c].tasks[g].st = "put"
  /\ objects' = [k \in (DOMAIN objects) \cup {s3call[c].tasks[g].fileKey} |->
                   IF k = s3call[c].tasks[g].fileKey THEN s3call[c].tasks[g].body ELSE objects[k]]
  /\ s3call' = [s3call EXCEPT ![c] = SettleS3([s3call[c] EXCEPT !.tasks[g].st = "ok"])]
  /\ UNCHANGED <<hasBucket, hasKeys, client>>
  /\ UNCHANGED <<repoVars, appVars>>

\* the Put of group g fails and leaves the bucket as it is
PutFail(c, g) ==
  /\ g \in DOMAIN s3call[c].tasks
  /\ s3call[c].tasks[g].st = "put"
  /\ s3call' = [s3call EXCEPT ![c] = SettleS3([s3call[c] EXCEPT !.tasks[g].st = "failed"])]
  /\ UNCHANGED <<hasBucket, hasKeys, client, objects>>
  /\ UNCHANGED <<repoVars, appVars>>

(***************************************************************************)
(* Batches and groups: calls that span more than one write                 *)
(***************************************************************************)
\* input lengths: none, one, and around the batch size
BatchLengths == {0, 1} \cup ((BatchSize - 1)..MaxItems)

\* lists of one or two assets of the grouped-file build, in the order of their ids
S3Lists ==
  LET
      \* site IDs, as strings of characters
      SiteIds == {<<"L", "1">>, <<"P", "1">>, <<"P", "1", " ">>}
  IN
  {l \in UNION {[1..m -> {S3Asset(id, site, 1) : id \in Serials, site \in SiteIds}] : m \in 1..2} :
     \A i, j \in DOMAIN l : i < j => \E m, n \in DOMAIN SerialNames :
        m < n /\ SerialNames[m] = l[i].id /\ SerialNames[n] = l[j].id}

\* a configured deployment of either build
InitBatch ==
  LET
      \* buckets left by earlier sessions
      EarlierBuckets ==
        {<<>>, [k \in {getSiteFileKey(<<"L", "1">>)} |-> <<S3Asset(SerialNames[1], <<"L", "1">>, 1)>>]}
      BatchTables ==
        {[s \in stored |-> StoredDraft(s, 1)] : stored \in {{}, Elements([i \in 1..MaxItems |-> SerialNames[i]])}}
  IN
  /\ hasCreds = TRUE
  /\ docClient = FALSE
  /\ table \in BatchTables
  /\ now = 1
  /\ call = [c \in Callers |-> IdleCall]
  /\ writes = 0
  /\ removed = {}
  /\ InitApp
  /\ hasBucket = TRUE
  /\ hasKeys = TRUE
  /\ client = FALSE
  /\ objects \in EarlierBuckets
  /\ s3call = [c \in Callers |-> IdleS3Call]

\* a deployment runs one build: no call of the other build has started
FlatOnly == \A d \in Callers : s3call[d].result = "none"

\* one grouped-file call, and no flat-table call, has started
GroupedOnly == \A d \in Callers : call[d].pc = "idle" /\ s3call[d].result = "none"

NextBatch ==
  LET
      BatchDrafts(n, t) == [i \in 1..n |-> FormDraft(SerialNames[i], t)]
      StoredBatch(n) == [i \in 1..n |-> StoredDraft(SerialNames[i], 1)]
  IN
  \/ \E c \in Callers, n \in BatchLengths :
       FlatOnly /\ StartAddAssets(c, BatchDrafts(n, now)) /\ UNCHANGED appVars
  \/ \E c \in Callers, n \in BatchLengths :
       FlatOnly /\ StartDeleteAssets(c, StoredBatch(n)) /\ UNCHANGED appVars
  \/ \E c \in Callers, newAssets \in S3Lists : GroupedOnly /\ groupedAddAssets(c, newAssets)
  \/ \E c \in Callers, assetsToDelete \in S3Lists : GroupedOnly /\ groupedDeleteAssets(c, assetsToDelete)
  \/ \E c \in Callers : \E i \in DOMAIN call[c].reqs : RequestApply(c, i) /\ UNCHANGED appVars
  \/ \E c \in Callers : \E i \in DOMAIN call[c].reqs : RequestFail(c, i) /\ UNCHANGED appVars
  \/ \E c \in Callers : \E g \in DOMAIN s3call[c].tasks : GetReturn(c, g)
  \/ \E c \in Callers : \E g \in DOMAIN s3call[c].tasks : GetFail(c, g)
  \/ \E c \in Callers : \E g \in DOMAIN s3call[c].tasks : PutApply(c, g)
  \/ \E c \in Callers : \E g \in DOMAIN s3call[c].tasks : PutFail(c, g)

SpecBatch == InitBatch /\ [][NextBatch]_vars

(***************************************************************************)
(* fetchAssets of the grouped-file build                                   *)
(***************************************************************************)
CouldNotConnect == "Could not connect to S3 Bucket."

\* the file keys, in the order ListObjectsV2 returns them
KeyOrder == <<getSiteFileKey(<<"L", "1">>), getSiteFileKey(<<"P", "1">>)>>

\* results.flat()
RECURSIVE Flat(_, _)
Flat(tasks, g) == IF g > Len(tasks) THEN <<>> ELSE tasks[g].body \o Flat(tasks, g + 1)

\* Promise.all(filePromises): fetchAssetsByKey never rejects
SettleFetch(c) ==
  IF \A g \in DOMAIN c.tasks : c.tasks[g].st # "get"
    THEN [c EXCEPT !.result = "resolved", !.value = Flat(c.tasks, 1)]
    ELSE c

\* fetchAssets up to the answer of ListObjectsV2
groupedFetchAssets(c) ==
  /\ s3call[c].result = "none"
  /\ IF ~hasBucket \/ ~hasKeys
       THEN /\ s3call' = [s3call EXCEPT ![c] =
                 [IdleS3Call EXCEPT !.op = "fetchAssets", !.result = "resolved"]]
            /\ UNCHANGED client
       ELSE /\ s3call' = [s3call EXCEPT ![c] =
                 [IdleS3Call EXCEPT !.op = "fetchAssets", !.result = "pending", !.listing = TRUE]]
            /\ client' = TRUE
  /\ UNCHANGED <<hasBucket, hasKeys, objects>>
  /\ UNCHANGED repoVars

\* the listing answers: no file gives [], otherwise every file is read
ListReturn(c) ==
  LET
      \* contents.map(key => fetchAssetsByKey(key))
      FetchTasks(keys) ==
        [g \in DOMAIN keys |->
           [fileKey |-> keys[g], assetsToAdd |-> <<>>, idsToDelete |-> <<>>, st |-> "get", body |-> <<>>]]
      ListedKeys(bucket) == SelectSeq(KeyOrder, LAMBDA k : k \in DOMAIN bucket)
  IN
  /\ s3call[c].listing
  /\ s3call' = [s3call EXCEPT ![c] =
       SettleFetch([s3call[c] EXCEPT !.listing = FALSE, !.tasks = FetchTasks(ListedKeys(objects))])]
  /\ UNCHANGED <<hasBucket, hasKeys, client, objects>>
  /\ UNCHANGED <<repoVars, appVars>>

\* the listing fails: the catch of fetchAssets throws its own error
ListFail(c) ==
  /\ s3call[c].listing
  /\ s3call' = [s3call EXCEPT ![c] = RejectedS3([s3call[c] EXCEPT !.listing = FALSE], CouldNotConnect)]
  /\ UNCHANGED <<hasBucket, hasKeys, client, objects>>
  /\ UNCHANGED <<repoVars, appVars>>

\* the Get of one listed file answers
FileRead(c, g) ==
  /\ g \in DOMAIN s3call[c].tasks
  /\ s3call[c].op = "fetchAssets"
  /\ s3call[c].tasks[g].st = "get"
  /\ s3call' = [s3call EXCEPT ![c] =
       SettleFetch([s3call[c] EXCEPT !.tasks[g].st = "ok",
                                     !.tasks[g].body = fetchAssetsByKey(objects, s3call[c].tasks[g].fileKey)])]
  /\ UNCHANGED <<hasBucket, hasKeys, client, objects>>
  /\ UNCHANGED <<repoVars, appVars>>

\* the Get of one listed file fails: fetchAssetsByKey logs the error and returns []
FileReadFail(c, g) ==
  /\ g \in DOMAIN s3call[c].tasks
  /\ s3call[c].op = "fetchAssets"
  /\ s3call[c].tasks[g].st = "get"
  /\ s3call' = [s3call EXCEPT ![c] = SettleFetch([s3call[c] EXCEPT !.tasks[g].st = "failed"])]
  /\ UNCHANGED <<hasBucket, hasKeys, client, objects>>
  /\ UNCHANGED <<repoVars, appVars>>

InitFetch ==
  LET
      \* buckets with no, one or two site files
      FetchBuckets ==
        {[k \in keys |-> IF k = KeyOrder[1] THEN <<S3Asset(SerialNames[1], <<"L", "1">>, 1)>>
                         ELSE <<S3Asset(SerialNames[2], <<"P", "1">>, 1)>>] :
           keys \in {{}, {KeyOrder[1]}, {KeyOrder[1], KeyOrder[2]}}}
  IN
  /\ hasCreds \in BOOLEAN
  /\ docClient = FALSE
  /\ table \in EarlierTables
  /\ now = 1
  /\ call = [c \in Callers |-> IdleCall]
  /\ writes = 0
  /\ removed = {}
  /\ InitApp
  /\ hasBucket \in BOOLEAN
  /\ hasKeys \in BOOLEAN
  /\ client = FALSE
  /\ objects \in FetchBuckets
  /\ s3call = [c \in Callers |-> IdleS3Call]

fetchAssets(c) == StartFetchAssets(c) /\ UNCHANGED appVars

NextFetch ==
  \/ \E c \in Callers : fetchAssets(c)
  \/ \E c \in Callers : ScanReturn(c) /\ UNCHANGED appVars
  \/ \E c \in Callers : ScanFail(c) /\ UNCHANGED appVars
  \/ \E c \in Callers : groupedFetchAssets(c) /\ UNCHANGED appVars
  \/ \E c \in Callers : ListReturn(c)
  \/ \E c \in Callers : ListFail(c)
  \/ \E c \in Callers : \E g \in DOMAIN s3call[c].tasks : FileRead(c, g)
  \/ \E c \in Callers : \E g \in DOMAIN s3call[c].tasks : FileReadFail(c, g)

SpecFetch == InitFetch /\ [][NextFetch]_vars

(***************************************************************************)
(* The first load of the App in either build                               *)
(***************************************************************************)
\* useEffect of the grouped-file App: loadData()
loadDataGrouped(c) ==
  /\ handler[c] = IdleHandler
  /\ isConnected = "null" /\ \A d \in Callers : handler[d] = IdleHandler
  /\ GroupedOnly
  /\ groupedFetchAssets(c)
  /\ handler' = [handler EXCEPT ![c] = [kind |-> "loadGrouped"]]
  /\ isLoading' = TRUE
  /\ UNCHANGED <<assets, notification, isSaving, isConnected, view, form, assetList>>

loadDataGroupedDone(c) ==
  /\ handler[c].kind = "loadGrouped"
  /\ s3call[c].result \in {"resolved", "rejected"}
  /\ IF s3call[c].result = "resolved"
       THEN /\ assets' = s3call[c].value
            /\ isConnected' = "true"
            /\ UNCHANGED notification
       ELSE /\ isConnected' = "false"
            /\ notification' = "error"
            /\ UNCHANGED assets
  /\ isLoading' = FALSE
  /\ handler' = [handler EXCEPT ![c] = IdleHandler]
  /\ UNCHANGED <<isSaving, view>>
  /\ UNCHANGED <<repoVars, s3Vars, form, assetList>>

NextConnect ==
  \/ \E c \in Callers : FlatOnly /\ loadData(c, FALSE)
  \/ \E c \in Callers : ScanReturn(c) /\ UNCHANGED appVars
  \/ \E c \in Callers : ScanFail(c) /\ UNCHANGED appVars
  \/ \E c \in Callers : loadDataDone(c)
  \/ \E c \in Callers : loadDataGrouped(c)
  \/ \E c \in Callers : ListReturn(c)
  \/ \E c \in Callers : ListFail(c)
  \/ \E c \in Callers : \E g \in DOMAIN s3call[c].tasks : FileRead(c, g)
  \/ \E c \in Callers : \E g \in DOMAIN s3call[c].tasks : FileReadFail(c, g)
  \/ \E c \in Callers : loadDataGroupedDone(c)

SpecConnect == InitFetch /\ [][NextConnect]_vars

(***************************************************************************)
(* AssetForm: the row normalizer, the manual form and the AI import        *)
(* Text is a tuple of characters; '' and a missing value are both <<>>.    *)
(***************************************************************************)
MaxRows == 2

UpperChars == <<"A", "B", "C", "D", "E", "F", "G", "H", "I", "J", "K", "L", "M", "N", "O", "P", "Q", "R", "S", "T", "U", "V", "W", "X", "Y", "Z">>
LowerChars == <<"a", "b", "c", "d", "e", "f", "g", "h", "i", "j", "k", "l", "m", "n", "o", "p", "q", "r", "s", "t", "u", "v", "w", "x", "y", "z">>
DigitChars == {"0", "1", "2", "3", "4", "5", "6", "7", "8", "9"}

UpperSet == {UpperChars[i] : i \in DOMAIN UpperChars}
LowerSet == {LowerChars[i] : i \in DOMAIN LowerChars}

\* toLowerCase of one character
Lower(ch) ==
  IF ch \in UpperSet
    THEN LowerChars[CHOOSE i \in DOMAIN UpperChars : UpperChars[i] = ch]
    ELSE ch

\* /^[a-zA-Z][a-zA-Z0-9]*$/.test(id)
isValidSiteID(id) ==
  LET
      IsLetter(ch) == ch \in UpperSet \cup LowerSet
  IN
  /\ id # <<>>
  /\ IsLetter(id[1])
  /\ \A i \in DOMAIN id : IsLetter(id[i]) \/ id[i] \in DigitChars

\* k.toLowerCase().trim().replace(/[^a-z0-9]/g, '')
NormalizedHeader(k) ==
  SelectSeq(Trim([i \in DOMAIN k |-> Lower(k[i])]),
            LAMBDA ch : ch \in LowerSet \cup DigitChars)

\* normalized[name]: the cell of the last column whose header normalizes to name
Cell(row, name) ==
  LET columns == {i \in DOMAIN row : NormalizedHeader(row[i][1]) = name}
  IN  IF columns = {} THEN <<>>
      ELSE row[CHOOSE i \in columns : \A j \in columns : j <= i][2]

\* a || b on text
OrElse(a, b) == IF a # <<>> THEN a ELSE b

RowModel(row) == OrElse(Cell(row, <<"m", "o", "d", "e", "l">>), OrElse(Cell(row, <<"a", "s", "s", "e", "t", "m", "o", "d", "e", "l">>), Cell(row, <<"p", "r", "o", "d", "u", "c", "t">>)))
RowSerial(row) == OrElse(Cell(row, <<"s", "e", "r", "i", "a", "l", "n", "u", "m", "b", "e", "r">>), OrElse(Cell(row, <<"s", "e", "r", "i", "a", "l">>), Cell(row, <<"s", "n">>)))
RowSite(row) == OrElse(Cell(row, <<"s", "i", "t", "e", "i", "d">>), Cell(row, <<"s", "i", "t", "e">>))

\* processRowToAsset: [asset] for an accepted row, [] for null
processRowToAsset(row, t) ==
  LET
      RowComments == OrElse(Cell(row, <<"c", "o", "m", "m", "e", "n", "t", "s">>), OrElse(Cell(row, <<"r", "m", "a", "s", "t", "a", "t", "u", "s">>), Cell(row, <<"n", "o", "t", "e", "s">>)))
      RowCountry == OrElse(Cell(row, <<"c", "o", "u", "n", "t", "r", "y">>), Cell(row, <<"r", "e", "g", "i", "o", "n">>))
  IN
  LET model == RowModel(row)
      serial == RowSerial(row)
      site == RowSite(row)
  IN  IF model # <<>> /\ serial # <<>> /\ site # <<>> /\ isValidSiteID(Trim(site))
        THEN <<[serialNumber |-> Trim(serial), model |-> Trim(model),
                siteID |-> Trim(site), country |-> Trim(RowCountry),
                comments |-> Trim(RowComments), status |-> Normal, createdAt |-> t]>>
        ELSE <<>>

\* data.map(processRowToAsset).filter(a => a !== null)
RECURSIVE ProcessedRows(_, _, _)
ProcessedRows(rows, i, t) ==
  IF i > Len(rows) THEN <<>> ELSE processRowToAsset(rows[i], t) \o ProcessedRows(rows, i + 1, t)

\* reader.onload of handleFileUpload
handleFileUpload(rows) ==
  LET
      NoValidAssets == "No valid assets found. SiteID must start with a letter and headers must include Model, Serial Number, and SiteID."
  IN
  /\ ~form.isProcessing
  /\ form.bulkPreview = <<>>
  /\ LET assetsOfFile == ProcessedRows(rows, 1, now)
     IN  form' = [form EXCEPT
           !.last = "upload", !.rows = rows,
           !.produced = assetsOfFile,
           !.dropped = Len(rows) - Len(assetsOfFile),
           !.submitted = <<>>, !.warned = 0,
           !.error = IF assetsOfFile = <<>> THEN NoValidAssets ELSE @,
           !.bulkPreview = IF assetsOfFile = <<>> THEN @ ELSE assetsOfFile]
  /\ UNCHANGED <<assets, notification, isSaving, isLoading, isConnected, view, handler, assetList>>
  /\ UNCHANGED <<repoVars, s3Vars>>

\* the parser throws
fileParsingFails ==
  LET
      FileParsingFailed == "File parsing failed."
  IN
  /\ ~form.isProcessing
  /\ form.bulkPreview = <<>>
  /\ form' = [form EXCEPT !.last = "uploadFailed", !.rows = <<>>, !.produced = <<>>,
                          !.dropped = 0, !.submitted = <<>>, !.warned = 0, !.error = FileParsingFailed]
  /\ UNCHANGED <<assets, notification, isSaving, isLoading, isConnected, view, handler, assetList>>
  /\ UNCHANGED <<repoVars, s3Vars>>

\* the Import button of the preview: onAddAssets(bulkPreview)
importPreview ==
  /\ ~form.isProcessing
  /\ form.bulkPreview # <<>>
  /\ form' = [form EXCEPT !.last = "import", !.rows = <<>>, !.produced = <<>>, !.dropped = 0,
                          !.warned = 0, !.submitted = form.bulkPreview]
  /\ UNCHANGED <<assets, notification, isSaving, isLoading, isConnected, view, handler, assetList>>
  /\ UNCHANGED <<repoVars, s3Vars>>

\* the Clear and Cancel buttons of the preview: setBulkPreview([])
clearPreview ==
  /\ ~form.isProcessing
  /\ form.bulkPreview # <<>>
  /\ form' = [form EXCEPT !.last = "clear", !.rows = <<>>, !.produced = <<>>, !.dropped = 0,
                          !.warned = 0, !.submitted = <<>>, !.bulkPreview = <<>>]
  /\ UNCHANGED <<assets, notification, isSaving, isLoading, isConnected, view, handler, assetList>>
  /\ UNCHANGED <<repoVars, s3Vars>>

handleManualSubmit(manualForm) ==
  LET
      \* the manual form as a row, for the ghost fields
      ManualRow ==
        <<<<<<"m", "o", "d", "e", "l">>, manualForm.model>>, <<<<"s", "e", "r", "i", "a", "l", "n", "u", "m", "b", "e", "r">>, manualForm.serialNumber>>,
          <<<<"s", "i", "t", "e", "i", "d">>, manualForm.siteID>>>>
      InvalidSiteID == "Invalid SiteID. It must start with a letter and contain only letters and numbers."
      RequiredFields == "Please fill in required fields (Model, Serial, SiteID)."
  IN
  /\ ~form.isProcessing
  /\ form' = [form EXCEPT
       !.last = "manual", !.rows = <<ManualRow>>,
       !.error = IF manualForm.model = <<>> \/ manualForm.serialNumber = <<>> \/ manualForm.siteID = <<>>
                   THEN RequiredFields
                 ELSE IF ~isValidSiteID(manualForm.siteID) THEN InvalidSiteID
                 ELSE "none",
       !.produced = IF manualForm.model # <<>> /\ manualForm.serialNumber # <<>>
                        /\ manualForm.siteID # <<>> /\ isValidSiteID(manualForm.siteID)
                      THEN <<[manualForm EXCEPT !.createdAt = now]>> ELSE <<>>,
       !.dropped = 0, !.warned = 0,
       !.submitted = IF manualForm.model # <<>> /\ manualForm.serialNumber # <<>>
                         /\ manualForm.siteID # <<>> /\ isValidSiteID(manualForm.siteID)
                       THEN <<[manualForm EXCEPT !.createdAt = now]>> ELSE <<>>]
  /\ UNCHANGED <<assets, notification, isSaving, isLoading, isConnected, view, handler, assetList>>
  /\ UNCHANGED <<repoVars, s3Vars>>

\* handleAiParse up to the await of parseAssetsFromText
handleAiParse ==
  /\ ~form.isProcessing
  /\ form' = [form EXCEPT !.isProcessing = TRUE, !.error = "none", !.last = "aiStarted",
                          !.rows = <<>>, !.produced = <<>>, !.dropped = 0, !.warned = 0,
                          !.submitted = <<>>]
  /\ UNCHANGED <<assets, notification, isSaving, isLoading, isConnected, view, handler, assetList>>
  /\ UNCHANGED <<repoVars, s3Vars>>

RECURSIVE ValidAssets(_, _, _)
ValidAssets(parsedData, i, t) ==
  LET
      \* (p.siteID || p.siteId || 'Unknown').trim()
      ParsedSite(p) == Trim(OrElse(p.siteID, OrElse(p.siteId, <<"U", "n", "k", "n", "o", "w", "n">>)))
      TimeText == <<"0", "1", "2", "3", "4", "5", "6", "7", "8", "9">>[t + 1]
  IN
  IF i > Len(parsedData) THEN <<>>
  ELSE (IF isValidSiteID(ParsedSite(parsedData[i]))
          THEN <<[serialNumber |-> OrElse(parsedData[i].serialNumber, <<"U", "N", "K", "N", "O", "W", "N", "-">> \o <<TimeText>>),
                  model |-> OrElse(parsedData[i].model, <<"U", "n", "k", "n", "o", "w", "n">>),
                  siteID |-> ParsedSite(parsedData[i]),
                  country |-> parsedData[i].country,
                  comments |-> parsedData[i].comments,
                  status |-> IF parsedData[i].status # "" THEN parsedData[i].status ELSE Normal,
                  createdAt |-> t]>>
          ELSE <<>>)
       \o ValidAssets(parsedData, i + 1, t)

\* parseAssetsFromText has answered
handleAiParseDone(parsedData) ==
  LET
      AllInvalidSites(n) ==
        <<"Found 1 assets but all had invalid SiteID formats (must start with letter).",
          "Found 2 assets but all had invalid SiteID formats (must start with letter).",
          "Found 3 assets but all had invalid SiteID formats (must start with letter).",
          "Found 4 assets but all had invalid SiteID formats (must start with letter).">>[n]
      NoAssetsInText == "No assets found in text."
  IN
  /\ form.isProcessing
  /\ LET validAssets == ValidAssets(parsedData, 1, now)
     IN  form' = [form EXCEPT
           !.isProcessing = FALSE, !.last = "ai", !.rows = <<>>,
           !.produced = validAssets,
           !.dropped = Len(parsedData) - Len(validAssets),
           !.error = IF parsedData = <<>> THEN NoAssetsInText
                     ELSE IF validAssets = <<>> THEN AllInvalidSites(Len(parsedData))
                     ELSE @,
           !.warned = IF validAssets # <<>> /\ Len(validAssets) < Len(parsedData) THEN 1 ELSE 0,
           !.submitted = validAssets]
  /\ UNCHANGED <<assets, notification, isSaving, isLoading, isConnected, view, handler, assetList>>
  /\ UNCHANGED <<repoVars, s3Vars>>

\* parseAssetsFromText throws
handleAiParseFails ==
  LET
      AiFailed == "AI Processing failed."
  IN
  /\ form.isProcessing
  /\ form' = [form EXCEPT !.isProcessing = FALSE, !.last = "aiFailed", !.rows = <<>>,
                          !.produced = <<>>, !.dropped = 0, !.error = AiFailed]
  /\ UNCHANGED <<assets, notification, isSaving, isLoading, isConnected, view, handler, assetList>>
  /\ UNCHANGED <<repoVars, s3Vars>>

\* normalizedRow[name]
CsvCell(row, name) ==
  LET
      \* the CSV upload of the bundled form: key.toLowerCase().trim()
      CsvHeader(k) == Trim([i \in DOMAIN k |-> Lower(k[i])])
  IN
  LET columns == {i \in DOMAIN row : CsvHeader(row[i][1]) = name}
  IN  IF columns = {} THEN <<>>
      ELSE row[CHOOSE i \in columns : \A j \in columns : j <= i][2]

\* Object.values(AssetStatus), value and text
AssetStatusValues ==
  <<[value |-> "Normal", text |-> <<"N", "o", "r", "m", "a", "l">>],
    [value |-> "RMA Requested", text |-> <<"R", "M", "A", " ", "R", "e", "q", "u", "e", "s", "t", "e", "d">>],
    [value |-> "RMA Shipped", text |-> <<"R", "M", "A", " ", "S", "h", "i", "p", "p", "e", "d">>],
    [value |-> "RMA Eligible", text |-> <<"R", "M", "A", " ", "E", "l", "i", "g", "i", "b", "l", "e">>],
    [value |-> "RMA Not Eligible", text |-> <<"R", "M", "A", " ", "N", "o", "t", " ", "E", "l", "i", "g", "i", "b", "l", "e">>],
    [value |-> "Deprecated", text |-> <<"D", "e", "p", "r", "e", "c", "a", "t", "e", "d">>],
    [value |-> "Unknown", text |-> <<"U", "n", "k", "n", "o", "w", "n">>]>>

\* the status of a row from its status cell
InferredStatus(status) ==
  LET
      \* text.includes(part)
      Includes(text, part) ==
        \E i \in 0..(Len(text) - Len(part)) : SubSeq(text, i + 1, i + Len(part)) = part
      LowerText(text) == [i \in DOMAIN text |-> Lower(text[i])]
  IN
  LET s == LowerText(Trim(status))
      found == {i \in DOMAIN AssetStatusValues : LowerText(AssetStatusValues[i].text) = s}
  IN  IF status = <<>> THEN "Normal"
      ELSE IF found # {} THEN AssetStatusValues[CHOOSE i \in found : \A j \in found : i <= j].value
      ELSE IF Includes(s, <<"r", "e", "q", "u", "e", "s", "t">>) THEN "RMA Requested"
      ELSE IF Includes(s, <<"s", "h", "i", "p">>) THEN "RMA Shipped"
      ELSE IF Includes(s, <<"n", "o", "t", " ", "e", "l", "i", "g", "i", "b", "l", "e">>) THEN "RMA Not Eligible"
      ELSE IF Includes(s, <<"e", "l", "i", "g", "i", "b", "l", "e">>) THEN "RMA Eligible"
      ELSE IF Includes(s, <<"d", "e", "p", "r", "e", "c", "a", "t", "e", "d">>) THEN "Deprecated"
      ELSE "Unknown"

\* results.data.forEach: the assets pushed for rows i.., n of them pushed before
RECURSIVE CsvAssets(_, _, _, _)
CsvAssets(rows, i, n, t) ==
  LET
      CsvComments(row) ==
        OrElse(CsvCell(row, <<"c", "o", "m", "m", "e", "n", "t", "s">>),
               OrElse(CsvCell(row, <<"c", "o", "m", "m", "e", "n", "t">>), OrElse(CsvCell(row, <<"d", "e", "s", "c", "r", "i", "p", "t", "i", "o", "n">>), CsvCell(row, <<"n", "o", "t", "e", "s">>))))
      CsvStatus(row) == OrElse(CsvCell(row, <<"s", "t", "a", "t", "u", "s">>), OrElse(CsvCell(row, <<"r", "m", "a", " ", "s", "t", "a", "t", "u", "s">>), CsvCell(row, <<"r", "m", "a">>)))
      CsvSite(row) == OrElse(CsvCell(row, <<"s", "i", "t", "e", " ", "i", "d">>), OrElse(CsvCell(row, <<"s", "i", "t", "e">>), CsvCell(row, <<"l", "o", "c", "a", "t", "i", "o", "n">>)))
      CsvSerial(row) ==
        OrElse(CsvCell(row, <<"s", "e", "r", "i", "a", "l", " ", "n", "u", "m", "b", "e", "r">>),
               OrElse(CsvCell(row, <<"s", "e", "r", "i", "a", "l">>), OrElse(CsvCell(row, <<"s", "n">>), CsvCell(row, <<"s", "e", "r", "i", "a", "l", " ", "n", "o">>))))
      CsvModel(row) == OrElse(CsvCell(row, <<"m", "o", "d", "e", "l">>), OrElse(CsvCell(row, <<"a", "s", "s", "e", "t", " ", "m", "o", "d", "e", "l">>), CsvCell(row, <<"p", "r", "o", "d", "u", "c", "t">>)))
  IN
  IF i > Len(rows) THEN <<>>
  ELSE IF CsvModel(rows[i]) # <<>> /\ CsvSerial(rows[i]) # <<>> /\ CsvSite(rows[i]) # <<>>
    THEN <<[id |-> n + 1, model |-> Trim(CsvModel(rows[i])),
            serialNumber |-> Trim(CsvSerial(rows[i])), siteId |-> Trim(CsvSite(rows[i])),
            comments |-> Trim(CsvComments(rows[i])),
            status |-> InferredStatus(CsvStatus(rows[i])), createdAt |-> t]>>
         \o CsvAssets(rows, i + 1, n + 1, t)
    ELSE CsvAssets(rows, i + 1, n, t)

\* complete: of the CSV upload of the bundled form
handleCsvUpload(rows) ==
  LET
      NoValidAssetsInCsv == "No valid assets found in CSV. Please check the column headers (Model, Serial Number, Site ID)."
  IN
  /\ ~form.isProcessing
  /\ form.bulkPreview = <<>>
  /\ LET assetsOfFile == CsvAssets(rows, 1, 0, now)
     IN  form' = [form EXCEPT
           !.last = "csv", !.rows = rows,
           !.produced = assetsOfFile,
           !.dropped = Len(rows) - Len(assetsOfFile),
           !.submitted = <<>>, !.warned = 0,
           !.error = IF assetsOfFile = <<>> THEN NoValidAssetsInCsv ELSE "none",
           !.bulkPreview = IF assetsOfFile = <<>> THEN @ ELSE assetsOfFile]
  /\ UNCHANGED <<assets, notification, isSaving, isLoading, isConnected, view, handler, assetList>>
  /\ UNCHANGED <<repoVars, s3Vars>>

\* error: of the CSV upload of the bundled form
csvParsingFails ==
  LET
      FailedToParseCsv == "Failed to parse CSV"
  IN
  /\ ~form.isProcessing
  /\ form.bulkPreview = <<>>
  /\ form' = [form EXCEPT !.last = "csvFailed", !.rows = <<>>, !.produced = <<>>,
                          !.dropped = 0, !.submitted = <<>>, !.warned = 0,
                          !.error = FailedToParseCsv]
  /\ UNCHANGED <<assets, notification, isSaving, isLoading, isConnected, view, handler, assetList>>
  /\ UNCHANGED <<repoVars, s3Vars>>

\* the texts of the cells
Foo == <<"F", "o", "o">>
ABC123 == <<"A", "B", "C", "1", "2", "3">>
LDN01 == <<"L", "D", "N", "0", "1">>

InitForm ==
  /\ hasCreds = TRUE
  /\ docClient = FALSE
  /\ table = <<>>
  /\ now = 1
  /\ call = [c \in Callers |-> IdleCall]
  /\ writes = 0
  /\ removed = {}
  /\ InitApp
  /\ NoS3

NextForm ==
  LET
      Blank == <<" ">>
      ParsedLists ==
        LET
            ParsedAssets ==
              {[serialNumber |-> sn, model |-> Foo, siteID |-> site, siteId |-> <<>>, country |-> <<>>,
                comments |-> <<>>, status |-> ""] :
                 sn \in {ABC123}, site \in {LDN01, <<"0", "1", "L", "D", "N">>, <<>>}}
        IN
                     UNION {[1..n -> ParsedAssets] : n \in 0..MaxRows}
      ManualForms ==
        {[model |-> model, serialNumber |-> sn, siteID |-> site, country |-> <<>>, comments |-> <<>>,
          status |-> Normal, createdAt |-> 0] :
           model \in {Foo, Blank, <<>>}, sn \in {ABC123}, site \in {LDN01, <<"0", "1", "L", "D", "N">>, <<" ">> \o LDN01}}
      Uploads ==
        LET
            \* rows under the headers of the two spreadsheets users upload
            SheetRows ==
              {<<<<<<"S", "/", "N">>, cells[1]>>, <<<<"A", "s", "s", "e", "t", " ", "M", "o", "d", "e", "l">>, cells[2]>>, <<<<"S", "i", "t", "e">>, cells[3]>>>> :
                 cells \in {<<ABC123, Foo, LDN01>>, <<ABC123, Foo, <<"0", "1", "L", "D", "N">>>>,
                            <<Blank, Foo, LDN01>>, <<ABC123, Blank, LDN01>>}}
              \cup
              {<<<<<<"S", "e", "r", "i", "a", "l">>, ABC123>>, <<<<"P", "r", "o", "d", "u", "c", "t">>, Foo>>, <<location, LDN01>>, <<<<"R", "M", "A", " ", "S", "t", "a", "t", "u", "s">>, <<"R", "M", "A", " ", "R", "e", "q", "u", "e", "s", "t", "e", "d">>>>>> :
                 location \in {<<"L", "o", "c", "a", "t", "i", "o", "n">>, <<"S", "i", "t", "e", "I", "D">>}}
        IN
                 UNION {[1..n -> SheetRows] : n \in 1..MaxRows}
  IN
  \/ \E rows \in Uploads : handleFileUpload(rows)
  \/ fileParsingFails
  \/ \E rows \in Uploads : handleCsvUpload(rows)
  \/ csvParsingFails
  \/ importPreview
  \/ clearPreview
  \/ \E manualForm \in ManualForms : handleManualSubmit(manualForm)
  \/ handleAiParse
  \/ \E parsedData \in ParsedLists : handleAiParseDone(parsedData)
  \/ handleAiParseFails

SpecForm == InitForm /\ [][NextForm]_vars

NextStatus ==
  LET
      \* uploads whose rows carry a free-text status under 'Status' or 'RMA Status'
      StatusUploads ==
        LET StatusTexts == {<<>>, <<"r", "m", "a", " ", "s", "h", "i", "p", "p", "e", "d">>,
                            <<"D", "e", "p", "r", "e", "c", "a", "t", "e", "d">>,
                            <<"A", "w", "a", "i", "t", "i", "n", "g", " ", "R", "e", "q", "u", "e", "s", "t">>,
                            <<"S", "h", "i", "p", "p", "e", "d">>,
                            <<" ", "N", "o", "t", " ", "E", "l", "i", "g", "i", "b", "l", "e", " ">>,
                            <<"E", "l", "i", "g", "i", "b", "l", "e">>,
                            <<"B", "r", "o", "k", "e", "n">>,
                            <<"R", "e", "q", "u", "e", "s", "t", " ", "-", " ", "n", "o", "t", " ", "e", "l", "i", "g", "i", "b", "l", "e">>}
            StatusRows ==
              {<<<<<<"S", "e", "r", "i", "a", "l">>, ABC123>>, <<<<"P", "r", "o", "d", "u", "c", "t">>, Foo>>, <<<<"S", "i", "t", "e">>, LDN01>>, <<header, text>>>> :
                 header \in {<<"S", "t", "a", "t", "u", "s">>, <<"R", "M", "A", " ", "S", "t", "a", "t", "u", "s">>}, text \in StatusTexts}
        IN  UNION {[1..n -> StatusRows] : n \in 1..MaxRows}
  IN
  \/ \E rows \in StatusUploads : handleCsvUpload(rows)
  \/ \E rows \in StatusUploads : handleFileUpload(rows)
  \/ clearPreview

SpecStatus == InitForm /\ [][NextStatus]_vars

(***************************************************************************)
(* AssetList: the filter and the pagination of the inventory table.  The   *)
(* repository bundles two AssetList components: assetList.variant is       *)
(* "serial" for the one that keys its rows by serialNumber and "id" for    *)
(* the one that keys them by id.                                           *)
(***************************************************************************)
\* the records the table is shown: the ones the repository holds at most
Inventory ==
  [i \in 1..MaxListed |->
     [serialNumber |-> <<"S", "N", <<"1", "2", "3", "4", "5", "6", "7", "8", "9">>[i]>>,
      model |-> IF i % 2 = 1 THEN <<"M", "a", "c">> ELSE <<"D", "e", "l", "l">>,
      siteID |-> IF i % 3 = 1 THEN <<"L", "D", "N">> ELSE <<"P", "A", "R">>,
      country |-> IF i % 3 = 1 THEN <<"U", "K">> ELSE <<"F", "R">>,
      comments |-> IF i = 2 THEN <<"s", "p", "a", "r", "e", " ", "M", "a", "c">> ELSE <<>>,
      status |-> <<"RMA Requested", "Normal", "Deprecated">>[(i % 3) + 1]]]

\* filtered of the serial-number component
filtered(list, searchTerm, statusFilter) ==
  LET
      toLowerCase(text) == [k \in DOMAIN text |-> Lower(text[k])]
      includes(text, part) ==
        \E i \in 0..(Len(text) - Len(part)) : SubSeq(text, i + 1, i + Len(part)) = part
      term == toLowerCase(searchTerm)
      matchesSearch(a) ==
        \/ includes(toLowerCase(a.model), term)
        \/ includes(toLowerCase(a.serialNumber), term)
        \/ includes(toLowerCase(a.siteID), term)
        \/ includes(toLowerCase(a.comments), term)
      keeps(a) == matchesSearch(a) /\ (statusFilter = "All" \/ a.status = statusFilter)
  IN  SelectSeq(list, keeps)

\* filteredAssets of the id component (its site field is the record's site)
filteredAssets(list, searchTerm, statusFilter) ==
  LET
      toLowerCase(text) == [k \in DOMAIN text |-> Lower(text[k])]
      includes(text, part) ==
        \E i \in 0..(Len(text) - Len(part)) : SubSeq(text, i + 1, i + Len(part)) = part
      matchesSearch(asset) ==
        \/ includes(toLowerCase(asset.model), toLowerCase(searchTerm))
        \/ includes(toLowerCase(asset.serialNumber), toLowerCase(searchTerm))
        \/ includes(toLowerCase(asset.siteID), toLowerCase(searchTerm))
        \/ includes(toLowerCase(asset.country), toLowerCase(searchTerm))
      matchesStatus(asset) == statusFilter = "All" \/ asset.status = statusFilter
      keeps(asset) == matchesSearch(asset) /\ matchesStatus(asset)
  IN  SelectSeq(list, keeps)

\* the filtered list of the bundled component
totalItems ==
  IF assetList.variant = "serial"
    THEN filtered(assets, assetList.searchTerm, assetList.statusFilter)
    ELSE filteredAssets(assets, assetList.searchTerm, assetList.statusFilter)

\* Math.ceil(filtered.length / itemsPerPage)
totalPages == (Len(totalItems) + assetList.itemsPerPage - 1) \div assetList.itemsPerPage

\* filtered.slice(startIndex, startIndex + itemsPerPage)
currentItems ==
  LET
      startIndex == (assetList.currentPage - 1) * assetList.itemsPerPage
      endIndex == startIndex + assetList.itemsPerPage
      \* Array.prototype.slice: the elements at the 0-based indices from..to-1 that exist
      slice(list, from, to) ==
        [k \in 1..(IF to > Len(list) THEN (IF Len(list) > from THEN Len(list) - from ELSE 0)
                   ELSE to - from) |-> list[from + k]]
  IN  slice(totalItems, startIndex, endIndex)

\* a search box whose change leaves the page where it is
setSearchTermKeepsPage(value) ==
  /\ assetList' = [assetList EXCEPT !.searchTerm = value]
  /\ UNCHANGED <<repoVars, s3Vars, form>>
  /\ UNCHANGED <<assets, notification, isSaving, isLoading, isConnected, view, handler>>

\* onChange of the search box; the effect on [searchTerm, statusFilter,
\* itemsPerPage] runs when the value differs and sets the page to 1
setSearchTerm(value) ==
  /\ assetList' = [assetList EXCEPT !.searchTerm = value,
                     !.currentPage = IF value /= assetList.searchTerm THEN 1 ELSE @]
  /\ UNCHANGED <<repoVars, s3Vars, form>>
  /\ UNCHANGED <<assets, notification, isSaving, isLoading, isConnected, view, handler>>

\* onChange of the status select, with the same effect
setStatusFilter(value) ==
  /\ assetList' = [assetList EXCEPT !.statusFilter = value,
                     !.currentPage = IF value /= assetList.statusFilter THEN 1 ELSE @]
  /\ UNCHANGED <<repoVars, s3Vars, form>>
  /\ UNCHANGED <<assets, notification, isSaving, isLoading, isConnected, view, handler>>

\* onChange of the page-size select, with the same effect
setItemsPerPage(value) ==
  /\ assetList' = [assetList EXCEPT !.itemsPerPage = value,
                     !.currentPage = IF value /= assetList.itemsPerPage THEN 1 ELSE @]
  /\ UNCHANGED <<repoVars, s3Vars, form>>
  /\ UNCHANGED <<assets, notification, isSaving, isLoading, isConnected, view, handler>>

\* the serial-number component: the two arrows call handlePageChange(currentPage -/+ 1);
\* the footer is rendered for a non-empty filtered list
handlePageChange(newPage) ==
  /\ assetList.variant = "serial"
  /\ Len(totalItems) > 0
  /\ \/ newPage = assetList.currentPage - 1 /\ assetList.currentPage /= 1
     \/ newPage = assetList.currentPage + 1 /\ assetList.currentPage /= totalPages /\ totalPages /= 0
  /\ assetList' = [assetList EXCEPT !.currentPage =
                     IF newPage >= 1 /\ newPage <= totalPages THEN newPage ELSE @]
  /\ UNCHANGED <<repoVars, s3Vars, form>>
  /\ UNCHANGED <<assets, notification, isSaving, isLoading, isConnected, view, handler>>

\* the id component: the left arrow, the page buttons "0".."4" and the right arrow
setCurrentPage(button) ==
  LET
      p == assetList.currentPage
      index == ("0" :> 0) @@ ("1" :> 1) @@ ("2" :> 2) @@ ("3" :> 3) @@ ("4" :> 4)
      \* the number on the i-th page button
      pageNum(i) ==
        IF totalPages > 5 /\ p > 3
          THEN (IF p - 3 + i + 1 > totalPages THEN totalPages - (4 - i) ELSE p - 3 + i + 1)
          ELSE i + 1
  IN
  /\ assetList.variant = "id"
  /\ Len(totalItems) > 0
  /\ \/ /\ button = "left"
        /\ p /= 1
        /\ assetList' = [assetList EXCEPT !.currentPage = IF p - 1 > 1 THEN p - 1 ELSE 1]
     \/ /\ button = "right"
        /\ p /= totalPages
        /\ assetList' = [assetList EXCEPT !.currentPage = IF p + 1 < totalPages THEN p + 1 ELSE totalPages]
     \/ /\ button \in DOMAIN index
        /\ index[button] < (IF totalPages < 5 THEN totalPages ELSE 5)
        /\ assetList' = [assetList EXCEPT !.currentPage = pageNum(index[button])]
  /\ UNCHANGED <<repoVars, s3Vars, form>>
  /\ UNCHANGED <<assets, notification, isSaving, isLoading, isConnected, view, handler>>

\* onDelete(serials) whose deleteAssets call succeeded: the App drops the
\* records from its list; the AssetList stays mounted and keeps its state
onDelete(serials) ==
  /\ serials /= {}
  /\ serials \subseteq {assets[i].serialNumber : i \in DOMAIN assets}
  /\ assets' = Without(assets, serials, 1)
  /\ UNCHANGED <<repoVars, s3Vars, form, assetList>>
  /\ UNCHANGED <<notification, isSaving, isLoading, isConnected, view, handler>>

\* the Refresh button whose fetchAssets call succeeded with what the table
\* holds by then; while a load runs over an empty list the App renders the
\* loader instead of the AssetList, which then mounts anew
refresh(data) ==
  /\ assets' = data
  /\ assetList' = IF assets = <<>> THEN IdleList(assetList.variant) ELSE assetList
  /\ UNCHANGED <<repoVars, s3Vars, form>>
  /\ UNCHANGED <<notification, isSaving, isLoading, isConnected, view, handler>>

InitList ==
  /\ hasCreds = TRUE
  /\ docClient = TRUE
  /\ table = <<>>
  /\ now = 1
  /\ call = [c \in Callers |-> IdleCall]
  /\ writes = 0
  /\ removed = {}
  /\ form = IdleForm
  /\ assetList \in {IdleList("serial"), IdleList("id")}
  /\ assets = Inventory
  /\ notification = "none"
  /\ isSaving = FALSE
  /\ isLoading = FALSE
  /\ isConnected = "true"
  /\ view = "list"
  /\ handler = [c \in Callers |-> IdleHandler]
  /\ NoS3

NextList ==
  LET
      SearchTerms == {<<>>, <<"U", "K">>, <<"m", "a", "c">>, <<"s", "p", "a", "r", "e">>, <<"N", "1">>}
      StatusFilters == {"All", "Normal", "Deprecated"}
      PageSizes == {PageUnit * k : k \in 1..MaxPageOptions}
      InventorySerials == {Inventory[i].serialNumber : i \in DOMAIN Inventory}
  IN
  \/ \E value \in SearchTerms : setSearchTerm(value)
  \/ \E value \in StatusFilters : setStatusFilter(value)
  \/ \E value \in PageSizes : setItemsPerPage(value)
  \/ \E newPage \in 0..(MaxListed + 1) : handlePageChange(newPage)
  \/ \E button \in {"left", "right", "0", "1", "2", "3", "4"} : setCurrentPage(button)
  \/ \E serials \in SUBSET InventorySerials : onDelete(serials)
  \/ \E gone \in SUBSET InventorySerials : refresh(Without(Inventory, gone, 1))

SpecList == InitList /\ [][NextList]_vars

(***************************************************************************)
(* Dashboard: the aggregate counts and their order                         *)
(***************************************************************************)
\* a tally that only notes that the key was seen
tallySeen(list, field, key) ==
  IF \E i \in DOMAIN list : list[i][field] = key THEN 1 ELSE 0

\* counts[a[field]] = (counts[a[field]] || 0) + 1 over the list, read at key
tally(list, field, key) ==
  Cardinality({i \in DOMAIN list : list[i][field] = key})

\* stats; every a.status is an AssetStatus value
stats(list) ==
  LET
      AssetStatus == {AssetStatusValues[i].value : i \in DOMAIN AssetStatusValues}
      digit == ("0" :> 0) @@ ("1" :> 1) @@ ("2" :> 2) @@ ("3" :> 3) @@ ("4" :> 4) @@
               ("5" :> 5) @@ ("6" :> 6) @@ ("7" :> 7) @@ ("8" :> 8) @@ ("9" :> 9)
      \* an object key that is a canonical array index: "0", "7", "10", not "07"
      isIndex(key) ==
        /\ Len(key) \in 1..9
        /\ \A k \in DOMAIN key : key[k] \in DOMAIN digit
        /\ Len(key) > 1 => key[1] /= "0"
      RECURSIVE numberOf(_)
      numberOf(key) ==
        IF key = <<>> THEN 0
        ELSE 10 * numberOf(SubSeq(key, 1, Len(key) - 1)) + digit[key[Len(key)]]
      \* the keys of an object in the order they were first assigned
      inserted(field) ==
        LET first == {i \in DOMAIN list : \A j \in 1..(i - 1) : list[j][field] /= list[i][field]}
            nth(r) == CHOOSE i \in first : Cardinality({j \in first : j < i}) = r - 1
        IN  [r \in 1..Cardinality(first) |-> list[nth(r)][field]]
      \* Object.entries: the index keys in ascending numeric order, then the
      \* other keys in insertion order
      keysOf(field) ==
        LET keys == inserted(field)
            index == {i \in DOMAIN keys : isIndex(keys[i])}
            rank(i) ==
              IF i \in index
                THEN Cardinality({j \in index : numberOf(keys[j]) < numberOf(keys[i])}) + 1
                ELSE Cardinality(index) + Cardinality({j \in DOMAIN keys \ index : j < i}) + 1
        IN  [r \in DOMAIN keys |-> keys[CHOOSE i \in DOMAIN keys : rank(i) = r]]
      \* entries.sort((a, b) => b[1] - a[1]): stable, larger totals first
      sorted(entries, total(_)) ==
        LET rank(i) ==
              Cardinality({j \in DOMAIN entries :
                             \/ total(entries[j]) > total(entries[i])
                             \/ total(entries[j]) = total(entries[i]) /\ j < i}) + 1
        IN  [r \in DOMAIN entries |-> entries[CHOOSE i \in DOMAIN entries : rank(i) = r]]
      second(entry) == entry[2]
      counted(field) ==
        sorted([r \in DOMAIN keysOf(field) |->
                  <<keysOf(field)[r], tally(list, field, keysOf(field)[r])>>], second)
      ofModel(model) == SelectSeq(list, LAMBDA a : a.model = model)
      modelTotal(entry) == Len(ofModel(entry[1]))
  IN
  [total |-> Len(list),
   statusCounts |-> [st \in AssetStatus |-> tally(list, "status", st)],
   sortedSites |-> counted("siteID"),
   sortedCountries |-> counted("country"),
   sortedModels |->
     sorted([r \in DOMAIN keysOf("model") |->
               <<keysOf("model")[r],
                 [st \in AssetStatus |-> tally(ofModel(keysOf("model")[r]), "status", st)]>>],
            modelTotal)]

\* onNavigate of the Header: setView
onNavigate(v) ==
  /\ view' = v
  /\ UNCHANGED <<repoVars, s3Vars, form, assetList>>
  /\ UNCHANGED <<assets, notification, isSaving, isLoading, isConnected, handler>>

InitDash ==
  LET
      Shown ==
        {[serialNumber |-> ABC123, model |-> model, siteID |-> site[1], country |-> site[2],
          comments |-> <<>>, status |-> status] :
           model \in {<<"M", "a", "c">>, <<"1", "0">>, <<"7">>},
           site \in {<<LDN01, <<"U", "K">>>>, <<<<"P", "A", "R">>, <<"F", "R">>>>},
           status \in {"Normal", "RMA Shipped"}}
  IN
  /\ hasCreds = TRUE
  /\ docClient = TRUE
  /\ table = <<>>
  /\ now = 1
  /\ call = [c \in Callers |-> IdleCall]
  /\ writes = 0
  /\ removed = {}
  /\ form = IdleForm
  /\ assetList = IdleList("serial")
  /\ assets \in UNION {[1..n -> Shown] : n \in 0..MaxShown}
  /\ notification = "none"
  /\ isSaving = FALSE
  /\ isLoading = FALSE
  /\ isConnected = "true"
  /\ view = "dashboard"
  /\ handler = [c \in Callers |-> IdleHandler]
  /\ NoS3

NextDash == \E v \in {"dashboard", "list", "add", "manual"} : onNavigate(v)

SpecDash == InitDash /\ [][NextDash]_vars

(***************************************************************************)
(* Properties                                                              *)
(***************************************************************************)
IsPrefix(p, q) == Len(p) <= Len(q) /\ SubSeq(q, 1, Len(p)) = p

\* the Put requests of an update call, and the record each one was computed from
UpdatePuts(c) ==
  {i \in DOMAIN c.reqs : c.op \in {"updateAsset", "bulkUpdateAssets"} /\ c.reqs[i].kind = "Put"}

ReadOf(c, i) == IF c.op = "updateAsset" THEN c.read[1] ELSE c.read[i]

DiffKeys(updates) == Keys(updates) \ {"history", "createdAt"}

\* the entries of written.history after those of old.history
Added(old, written) == SubSeq(written.history, Len(old.history) + 1, Len(written.history))

\* written.history is old.history, then one entry per key of the payload whose
\* value differs from old's, labelled Label(key), and nothing else
MinimalDiff(old, updates, written, Label(_)) ==
  /\ IsPrefix(old.history, written.history)
  /\ Len(Added(old, written)) =
       Cardinality({k \in DiffKeys(updates) : old[k] # ValueOf(updates, k)})
  /\ \A k \in DiffKeys(updates) :
       LET hits == {n \in DOMAIN Added(old, written) : Added(old, written)[n].field = Label(k)}
       IN  IF old[k] # ValueOf(updates, k)
             THEN /\ Cardinality(hits) = 1
                  /\ \A n \in hits : /\ Added(old, written)[n].oldValue = old[k]
                                     /\ Added(old, written)[n].newValue = ValueOf(updates, k)
             ELSE hits = {}

KeyItself(k) == k

SiteTransferLabel(k) == IF k = "siteID" THEN "Site Transfer" ELSE k

C2_StoredHistoryAppendOnly ==
  [][\A s \in (DOMAIN table) \cap (DOMAIN table') :
       IsPrefix(table[s].history, table'[s].history)]_vars

\* C3: no write of updateAsset or bulkUpdateAssets changes the serial number
\* a record is stored under, or its createdAt.
C3_IdentityAndCreatedAtKept ==
  [][\A s \in DOMAIN table :
       /\ s \in DOMAIN table'
       /\ table'[s].serialNumber = s
       /\ table'[s].createdAt = table[s].createdAt]_vars

\* the draft behind item j of batch b of an addAssets call
DraftOf(c, b, j) == c.input[(b - 1) * BatchSize + j]

IsSeedHistory(h) ==
  /\ Len(h) = 1
  /\ h[1].field = "System"
  /\ h[1].oldValue = Null
  /\ h[1].newValue = "Initial Asset Registration"

\* C4: every item addAssets writes has a non-empty history: the single
\* registration entry when the draft's history is absent or empty, the
\* draft's own history when that is non-empty.
C4_CreationSeedsHistory ==
  \A c \in Callers : call[c].op = "addAssets" =>
    \A b \in DOMAIN call[c].reqs : \A j \in DOMAIN call[c].reqs[b].items :
      LET item == call[c].reqs[b].items[j]
          draft == DraftOf(call[c], b, j)
      IN  /\ Len(item.history) > 0
          /\ IF HasKey(draft, "history") /\ Len(draft.history) > 0
               THEN item.history = draft.history
               ELSE IsSeedHistory(item.history)

\* the write numbers of the requests of a call that the table has applied
AppliedAt(c) == {c.reqs[i].at : i \in {n \in DOMAIN c.reqs : c.reqs[n].st = "ok"}}

\* two completed updateAsset calls on one serial number, both of which read
\* before either wrote, the Put of w applied after the Put of l
OverlappedWinner(w, l) ==
  /\ w.op = "updateAsset" /\ l.op = "updateAsset"
  /\ w.result = "resolved" /\ l.result = "resolved"
  /\ w.serials = l.serials
  /\ \A n \in AppliedAt(w) \cup AppliedAt(l) : w.seen < n /\ l.seen < n
  /\ \A n \in AppliedAt(l) : \E m \in AppliedAt(w) : n < m

\* C5: when two updateAsset calls on the same serial number overlap, the
\* stored record is exactly the merged record of the call whose Put came
\* last, and neither a field value that only the other call set nor a
\* history entry that only the other call added is anywhere in the table.
C5_LastWriteWins ==
  \A c1, c2 \in Callers :
    (c1 # c2 /\ OverlappedWinner(call[c1], call[c2])) =>
      LET won == call[c1].merged[1]
          old == call[c2].read[1]
          lost == call[c2].merged[1]
          upd == call[c2].updates
      IN  /\ won.serialNumber \in DOMAIN table
          /\ table[won.serialNumber] = won
          /\ \A s \in DOMAIN table :
               /\ \A k \in Keys(upd) \ {"history"} :
                    (old[k] # ValueOf(upd, k) /\ won[k] # ValueOf(upd, k))
                      => table[s][k] # ValueOf(upd, k)
               /\ \A n \in DOMAIN Added(old, lost) :
                    \/ \E m \in DOMAIN won.history : won.history[m] = Added(old, lost)[n]
                    \/ \A m \in DOMAIN table[s].history :
                         table[s].history[m] # Added(old, lost)[n]

\* this step is the table applying a request of an addAssets call
AddAssetsWrites ==
  \E c \in Callers : \E i \in DOMAIN call[c].reqs :
    /\ call[c].op = "addAssets"
    /\ call[c].reqs[i].st = "inflight"
    /\ call'[c].reqs[i].st = "ok"

\* C6: a record that deleteAssets has removed reappears in the table only
\* when addAssets stores it again.
C6_DeletedStaysDeleted ==
  [][\A s \in removed : (s \notin DOMAIN table /\ s \in DOMAIN table') => AddAssetsWrites]_vars

\* the handler of caller c finishes in this step
HandlerEnds(c) == handler[c].kind # "none" /\ handler'[c] = IdleHandler

\* C7: updateAsset on a serial number that is not stored is rejected, sends
\* no Put or Delete and leaves the table as it is, and handleUpdateAsset then
\* leaves the in-memory list as it is and shows an error.
C7_NotFoundLeavesStateUnchanged ==
  [][\A c \in Callers : call[c].op = "updateAsset" =>
       /\ (call[c].pc = "scan" /\ call'[c].pc # "scan" /\ call[c].serials[1] \notin DOMAIN table)
            => (call'[c].result = "rejected" /\ call'[c].reqs = <<>> /\ table' = table)
       /\ call[c].error = AssetNotFound
            => /\ call[c].result = "rejected"
               /\ call[c].reqs = <<>> /\ call'[c].reqs = <<>>
               /\ HandlerEnds(c) => (assets' = assets /\ notification' = "error")]_vars

\* handleUpdateAsset has ended on 'Asset not found.' for an asset the list still shows
C7_Witness ==
  \E c \in Callers :
    /\ call[c].op = "updateAsset"
    /\ call[c].error = AssetNotFound
    /\ call[c].serials[1] \notin DOMAIN table
    /\ call[c].serials[1] \in ListedSerials(assets)
    /\ handler[c] = IdleHandler
    /\ notification = "error"

\* C8: the in-memory list changes only in the step in which a handler ends
\* on a resolved repository call; a handler of add, update or delete that
\* ends on a rejected call leaves the list as it is and shows an error.
C8_NoOptimisticUpdate ==
  [][/\ assets' # assets =>
          \E c \in Callers : HandlerEnds(c) /\ call[c].result = "resolved"
     /\ \A c \in Callers :
          (HandlerEnds(c) /\ handler[c].kind \in {"add", "update", "delete"}
             /\ call[c].result = "rejected")
            => (assets' = assets /\ notification' = "error")]_vars

\* handleAddAssets has ended on a failed write: error shown, draft not listed
C8_Witness ==
  \E c \in Callers :
    /\ call[c].op = "addAssets"
    /\ call[c].error = BackendError
    /\ handler[c] = IdleHandler
    /\ notification = "error"
    /\ \A i \in DOMAIN call[c].input : \A n \in DOMAIN assets : assets[n] # call[c].input[i]

\* the flat-table calls that write in batches
BatchCalls == {"addAssets", "deleteAssets"}

HasFailedAndDone(states) == "failed" \in states /\ "ok" \in states

\* C9: when one batch (or group) write of an addAssets or deleteAssets call
\* has failed and another one has succeeded, the call's result reports both
\* outcomes: it is not a rejection carrying a single error.
C9_PartialFailureReported ==
  /\ \A c \in Callers :
       (call[c].op \in BatchCalls
          /\ HasFailedAndDone({call[c].reqs[i].st : i \in DOMAIN call[c].reqs}))
         => call[c].result # "rejected"
  /\ \A c \in Callers :
       HasFailedAndDone({s3call[c].tasks[g].st : g \in DOMAIN s3call[c].tasks})
         => s3call[c].result # "rejected"

\* number of batches of an input of n items
BatchCount(n) == (n + BatchSize - 1) \div BatchSize

\* the write of request req is in the table
Written(tbl, req) ==
  IF req.kind = "BatchPut"
    THEN \A j \in DOMAIN req.items :
           /\ req.items[j].serialNumber \in DOMAIN tbl
           /\ tbl[req.items[j].serialNumber] = req.items[j]
    ELSE \A j \in DOMAIN req.keys : req.keys[j] \notin DOMAIN tbl

FileOf(bucket, k) == IF k \in DOMAIN bucket THEN bucket[k] ELSE <<>>

\* C11: when grouped-file addAssets has returned successfully, every file it
\* wrote holds the records it held when the call started, followed by new
\* drafts, and every draft of the batch is in some file.
C11_AddKeepsFileContents ==
  \A c \in Callers :
    (s3call[c].op = "addAssets" /\ s3call[c].result = "resolved") =>
      /\ \A g \in DOMAIN s3call[c].tasks :
           IsPrefix(FileOf(s3call[c].before, s3call[c].tasks[g].fileKey),
                    FileOf(objects, s3call[c].tasks[g].fileKey))
      /\ \A i \in DOMAIN s3call[c].input :
           \E k \in DOMAIN objects : s3call[c].input[i] \in Elements(objects[k])

\* the file keys a call works on
TaskKeys(c) == {c.tasks[g].fileKey : g \in DOMAIN c.tasks}

\* C12: when grouped-file deleteAssets has returned successfully, every file
\* it wrote holds the records it held when the call started minus those whose
\* id the call was asked to delete there, and every other file is as it was.
C12_DeleteRemovesOnlyAsked ==
  \A c \in Callers :
    (s3call[c].op = "deleteAssets" /\ s3call[c].result = "resolved") =>
      /\ \A g \in DOMAIN s3call[c].tasks :
           FileOf(objects, s3call[c].tasks[g].fileKey) =
             SelectSeq(FileOf(s3call[c].before, s3call[c].tasks[g].fileKey),
                       LAMBDA a : a.id \notin Elements(s3call[c].tasks[g].idsToDelete))
      /\ \A k \in ((DOMAIN objects) \cup (DOMAIN s3call[c].before)) \ TaskKeys(s3call[c]) :
           /\ k \in DOMAIN objects
           /\ k \in DOMAIN s3call[c].before
           /\ objects[k] = s3call[c].before[k]

\* C13: fetchAssets does not return records when a backend read has failed:
\* a failed scan, a failed listing or a failed read of one site file makes
\* the call throw; it resolves only when every read was answered.
C13_ReadFailureThrows ==
  /\ \A c \in Callers :
       (call[c].op = "fetchAssets" /\ call[c].error = BackendError) => call[c].result = "rejected"
  /\ \A c \in Callers :
       (s3call[c].op = "fetchAssets" /\ s3call[c].error = CouldNotConnect)
         => s3call[c].result = "rejected"
  /\ \A c \in Callers :
       (s3call[c].op = "fetchAssets"
          /\ \E g \in DOMAIN s3call[c].tasks : s3call[c].tasks[g].st = "failed")
         => s3call[c].result # "resolved"

\* the serial numbers one BatchWrite carries, in order
RequestKeys(req) ==
  IF req.kind = "BatchPut" THEN [j \in DOMAIN req.items |-> req.items[j].serialNumber]
  ELSE req.keys

RECURSIVE KeysFrom(_, _)
KeysFrom(reqs, b) == IF b > Len(reqs) THEN <<>> ELSE RequestKeys(reqs[b]) \o KeysFrom(reqs, b + 1)

\* C14: the BatchWrites of a flat-table addAssets or deleteAssets call carry
\* between 1 and 25 items each, and read one after the other they are the
\* input, item by item in input order; an empty input has no BatchWrite.
C14_Batching ==
  \A c \in Callers :
    (call[c].op \in BatchCalls /\ call[c].error # CredentialsMissing) =>
      /\ \A b \in DOMAIN call[c].reqs :
           Len(RequestKeys(call[c].reqs[b])) \in 1..25
      /\ KeysFrom(call[c].reqs, 1) = [i \in DOMAIN call[c].input |-> call[c].input[i].serialNumber]
      /\ \A b \in DOMAIN call[c].reqs :
           call[c].reqs[b].kind = (IF call[c].op = "addAssets" THEN "BatchPut" ELSE "BatchDelete")
      /\ call[c].input = <<>> => call[c].reqs = <<>>

\* a call with 26 items has sent a batch of 25 and a batch of 1; another was called with no item
C14_Witness ==
  /\ \E c \in Callers :
       /\ call[c].op \in BatchCalls
       /\ Len(call[c].input) = 26
       /\ Len(call[c].reqs) = 2
       /\ Len(RequestKeys(call[c].reqs[1])) = 25
       /\ Len(RequestKeys(call[c].reqs[2])) = 1
  /\ \E c \in Callers :
       call[c].op \in BatchCalls /\ call[c].input = <<>> /\ call[c].result = "resolved"

\* C15: the record updateAsset merges (and the item of the Put it sends) has
\* the history of the record it read as a prefix of its own history, so it
\* is at least as long.
C15_MergedHistoryKeepsPrefix ==
  \A c \in Callers :
    (call[c].op = "updateAsset" /\ call[c].merged # <<>>) =>
      /\ IsPrefix(HistoryOr(call[c].read[1], <<>>), call[c].merged[1].history)
      /\ Len(call[c].merged[1].history) >= Len(HistoryOr(call[c].read[1], <<>>))
      /\ \A i \in UpdatePuts(call[c]) :
           IsPrefix(HistoryOr(call[c].read[1], <<>>), call[c].reqs[i].item.history)

\* an update whose payload has a history key and a changed field has stored
\* a history one entry longer than the two entries it read
C15_Witness ==
  \E c \in Callers :
    /\ call[c].op = "updateAsset"
    /\ call[c].result = "resolved"
    /\ "history" \in Keys(call[c].updates)
    /\ Len(call[c].read[1].history) = 2
    /\ Len(call[c].merged[1].history) = 3
    /\ call[c].merged[1].serialNumber \in DOMAIN table
    /\ table[call[c].merged[1].serialNumber] = call[c].merged[1]

\* every key of the payload holds the value the record already has
IsReset(asset, updates) ==
  /\ updates # <<>>
  /\ \A k \in Keys(updates) : HasKey(asset, k) /\ asset[k] = ValueOf(updates, k)

\* C16: an updateAsset whose payload only re-sets values the record already
\* holds appends no history entry, and when its Put is applied to the record
\* it read the table stays as it was; so doing it twice leaves what doing it
\* once leaves, the record as it was before.
C16_ResetIsNoOp ==
  [][\A c \in Callers : \A i \in DOMAIN call[c].reqs :
       (/\ call[c].op = "updateAsset"
        /\ call[c].reqs[i].kind = "Put"
        /\ call[c].reqs[i].st = "inflight"
        /\ call'[c].reqs[i].st = "ok"
        /\ IsReset(call[c].read[1], call[c].updates))
       => /\ call[c].reqs[i].item.history = call[c].read[1].history
          /\ call[c].reqs[i].item = call[c].read[1]
          /\ (call[c].serials[1] \in DOMAIN table
                /\ FetchedItem(table[call[c].serials[1]]) = call[c].read[1])
               => table' = table]_vars

\* two re-sets of the same record, one after the other, have both been
\* stored and the record is the one the first of them read
C16_Witness ==
  \E c, d \in Callers :
    /\ c # d
    /\ call[c].op = "updateAsset" /\ call[d].op = "updateAsset"
    /\ call[c].result = "resolved" /\ call[d].result = "resolved"
    /\ call[c].serials = call[d].serials
    /\ IsReset(call[c].read[1], call[c].updates)
    /\ IsReset(call[d].read[1], call[d].updates)
    /\ call[d].seen >= call[c].reqs[1].at
    /\ call[c].serials[1] \in DOMAIN table
    /\ table[call[c].serials[1]] = call[c].read[1]

\* C17: the App's in-memory asset list never holds two records with the
\* same serial number (adding a registered serial number updates the record,
\* it does not duplicate it); the table, keyed by serial number, holds each
\* record under its own serial number.
C17_SerialNumberUnique ==
  /\ \A i, j \in DOMAIN assets : i # j => assets[i].serialNumber # assets[j].serialNumber
  /\ \A s \in DOMAIN table : table[s].serialNumber = s

\* the rule of the claim on a row: model, serial number and site non-empty
\* after trimming, and the site a letter followed by letters and digits
RuleAccepts(row) ==
  /\ Trim(RowModel(row)) # <<>>
  /\ Trim(RowSerial(row)) # <<>>
  /\ Trim(RowSite(row)) # <<>>
  /\ isValidSiteID(RowSite(row))

\* C18: a row is accepted by processRowToAsset or by the manual form if and
\* only if its model, serial number and site are non-empty after trimming and
\* the site is a letter followed by letters and digits: every asset a file
\* upload or a manual submit produced has a non-blank model, a non-blank serial
\* number and a valid site, and every row the rule accepts produced an asset.
C18_RowAcceptanceRule ==
  form.last \in {"upload", "manual"} =>
    /\ \A i \in DOMAIN form.produced :
         /\ Trim(form.produced[i].model) # <<>>
         /\ Trim(form.produced[i].serialNumber) # <<>>
         /\ isValidSiteID(Trim(form.produced[i].siteID))
    /\ Len(form.produced) >= Cardinality({i \in DOMAIN form.rows : RuleAccepts(form.rows[i])})

\* C19: whenever a file upload or an AI extraction drops at least one row as
\* invalid, the form shows a message, also when other rows of the same batch
\* were accepted.
C19_RejectedRowsReported ==
  (form.last \in {"upload", "ai"} /\ form.dropped > 0) => form.error # "none"

\* the cell of the last column whose header, lowercased and stripped of its
\* non-alphanumeric characters, is one of names
Resolved(row, names) ==
  LET columns == {i \in DOMAIN row : NormalizedHeader(row[i][1]) \in names}
  IN  IF columns = {} THEN <<>>
      ELSE row[CHOOSE i \in columns : \A j \in columns : j <= i][2]

ResolvedSerial(row) == Resolved(row, {<<"s", "e", "r", "i", "a", "l", "n", "u", "m", "b", "e", "r">>, <<"s", "e", "r", "i", "a", "l">>, <<"s", "n">>})
ResolvedModel(row) == Resolved(row, {<<"m", "o", "d", "e", "l">>, <<"a", "s", "s", "e", "t", "m", "o", "d", "e", "l">>, <<"p", "r", "o", "d", "u", "c", "t">>})
ResolvedSite(row) == Resolved(row, {<<"s", "i", "t", "e", "i", "d">>, <<"s", "i", "t", "e">>, <<"l", "o", "c", "a", "t", "i", "o", "n">>})
ResolvedStatus(row) == Resolved(row, {<<"s", "t", "a", "t", "u", "s">>, <<"r", "m", "a", "s", "t", "a", "t", "u", "s">>})

StatusText(value) ==
  AssetStatusValues[CHOOSE i \in DOMAIN AssetStatusValues : AssetStatusValues[i].value = value].text

SiteOf(asset) == IF "siteID" \in DOMAIN asset THEN asset.siteID ELSE asset.siteId

\* C20: the headers of an uploaded row are lowercased, stripped of their
\* non-alphanumeric characters and resolved through the alias table: a row
\* with a serial number under 'S/N' or 'Serial', a model under 'Asset Model' or
\* 'Product' and a valid site under 'Site', 'SiteID' or 'Location' yields an
\* asset with that serial number, model and site, whose status is the text
\* under 'RMA Status' if there is one and Normal otherwise.
C20_HeaderAliasing ==
  form.last \in {"upload", "csv"} =>
    \A i \in DOMAIN form.rows :
      (/\ Trim(ResolvedSerial(form.rows[i])) # <<>>
       /\ Trim(ResolvedModel(form.rows[i])) # <<>>
       /\ isValidSiteID(ResolvedSite(form.rows[i])))
      => \E j \in DOMAIN form.produced :
           /\ form.produced[j].serialNumber = ResolvedSerial(form.rows[i])
           /\ form.produced[j].model = ResolvedModel(form.rows[i])
           /\ SiteOf(form.produced[j]) = ResolvedSite(form.rows[i])
           /\ StatusText(form.produced[j].status) =
                OrElse(ResolvedStatus(form.rows[i]), StatusText(Normal))

\* text.toLowerCase().includes(part)
Contains(text, part) ==
  \E i \in 0..(Len(text) - Len(part)) :
    [k \in 1..Len(part) |-> Lower(text[i + k])] = part

\* the status the rule of the claim gives to a status text
ClaimedStatus(text) ==
  LET same == {i \in DOMAIN AssetStatusValues :
                 /\ Len(AssetStatusValues[i].text) = Len(Trim(text))
                 /\ Contains(Trim(text), [k \in DOMAIN AssetStatusValues[i].text |->
                                            Lower(AssetStatusValues[i].text[k])])}
  IN  IF text = <<>> THEN "Normal"
      ELSE IF same # {} THEN AssetStatusValues[CHOOSE i \in same : TRUE].value
      ELSE IF Contains(text, <<"r", "e", "q", "u", "e", "s", "t">>) THEN "RMA Requested"
      ELSE IF Contains(text, <<"s", "h", "i", "p">>) THEN "RMA Shipped"
      ELSE IF Contains(text, <<"n", "o", "t", " ", "e", "l", "i", "g", "i", "b", "l", "e">>) THEN "RMA Not Eligible"
      ELSE IF Contains(text, <<"e", "l", "i", "g", "i", "b", "l", "e">>) THEN "RMA Eligible"
      ELSE IF Contains(text, <<"d", "e", "p", "r", "e", "c", "a", "t", "e", "d">>) THEN "Deprecated"
      ELSE "Unknown"

\* C21: the status of an uploaded row is inferred from its status text: Normal
\* when absent, the enumeration value it equals ignoring case, else by the
\* first of 'request', 'ship', 'not eligible', 'eligible', 'deprecated' it
\* contains, else Unknown; and a text containing 'not eligible' always gives
\* RMANotEligible.
C21_StatusInference ==
  (form.last \in {"upload", "csv"} /\ Len(form.produced) = Len(form.rows)) =>
    \A i \in DOMAIN form.rows :
      /\ form.produced[i].status = ClaimedStatus(ResolvedStatus(form.rows[i]))
      /\ Contains(ResolvedStatus(form.rows[i]), <<"n", "o", "t", " ", "e", "l", "i", "g", "i", "b", "l", "e">>)
           => form.produced[i].status = "RMA Not Eligible"

\* the configuration of the build that is loading is missing
MissingConfig(c) ==
  \/ handler[c].kind = "load" /\ ~hasCreds
  \/ handler[c].kind = "loadGrouped" /\ (~hasBucket \/ ~hasKeys)

\* C22: when the credentials (or the bucket name) are missing, the first
\* repository call fails with an error and sends no request, and the first
\* load ends with isConnected = false and an error notification, never with
\* the connected status.
C22_MissingConfigDisconnected ==
  /\ [](\A c \in Callers : MissingConfig(c) =>
          /\ handler[c].kind = "load" =>
               call[c].result = "rejected" /\ call[c].reqs = <<>> /\ call[c].seen = 0
          /\ handler[c].kind = "loadGrouped" =>
               s3call[c].result = "rejected" /\ ~s3call[c].listing)
  /\ [][\A c \in Callers :
          (MissingConfig(c) /\ isConnected = "null" /\ isConnected' # "null")
            => isConnected' = "false" /\ notification' = "error"]_vars

\* the records of the list, in their order, whose status passes the status
\* filter and one of whose given fields contains the lowercased search term
ClaimedFilter(fields) ==
  LET
      term == [k \in DOMAIN assetList.searchTerm |-> Lower(assetList.searchTerm[k])]
      Kept(a) ==
        /\ assetList.statusFilter = "All" \/ a.status = assetList.statusFilter
        /\ \E f \in fields : Contains(a[f], term)
  IN  SelectSeq(assets, Kept)

\* C23: the filtered list is exactly the records, in their original order,
\* whose status equals statusFilter (or statusFilter is 'All') and for which
\* the lowercased searchTerm is a substring of the lowercased model, serial
\* number, site, country or comments; with searchTerm '' and statusFilter
\* 'All' it is the whole list.
C23_FilterMatches ==
  /\ totalItems = ClaimedFilter({"model", "serialNumber", "siteID", "country", "comments"})
  /\ (assetList.searchTerm = <<>> /\ assetList.statusFilter = "All") => totalItems = assets

\* C25: the displayed page is the slice of the filtered list that starts at
\* (currentPage - 1) * itemsPerPage and has at most itemsPerPage records, and
\* every step that changes searchTerm, statusFilter or itemsPerPage leaves
\* currentPage at 1.
C25_PageSliceAndReset ==
  /\ [](LET start == (assetList.currentPage - 1) * assetList.itemsPerPage
            left == Len(totalItems) - start
            size == IF left < 0 THEN 0
                    ELSE IF left < assetList.itemsPerPage THEN left ELSE assetList.itemsPerPage
        IN  currentItems = [k \in 1..size |-> totalItems[start + k]])
  /\ [][(\/ assetList'.searchTerm /= assetList.searchTerm
         \/ assetList'.statusFilter /= assetList.statusFilter
         \/ assetList'.itemsPerPage /= assetList.itemsPerPage)
          => assetList'.currentPage = 1]_vars

\* a search is on and a later page shows the short tail of the filtered list
C25_Witness ==
  /\ assetList.searchTerm /= <<>>
  /\ assetList.currentPage > 1
  /\ currentItems /= <<>>
  /\ Len(currentItems) < assetList.itemsPerPage

\* C30: in every reachable state of the AssetList, currentPage is between 1
\* and max(1, totalPages), so a non-empty filtered list never shows an empty
\* page.
C30_PageInRange ==
  /\ assetList.currentPage >= 1
  /\ assetList.currentPage <= (IF totalPages > 1 THEN totalPages ELSE 1)
  /\ totalItems /= <<>> => currentItems /= <<>>

\* the sum of a function's values over the given arguments
RECURSIVE TotalOver(_, _)
TotalOver(f, S) ==
  IF S = {} THEN 0
  ELSE LET x == CHOOSE y \in S : TRUE IN f[x] + TotalOver(f, S \ {x})

\* the number of records of the list whose field has the value
Records(field, value) == Cardinality({i \in DOMAIN assets : assets[i][field] = value})

FrequentFirst(entries, field) ==
  LET First(key) == CHOOSE i \in DOMAIN assets :
                      /\ assets[i][field] = key
                      /\ \A j \in 1..(i - 1) : assets[j][field] /= key
  IN  \A r, q \in DOMAIN entries :
        r < q =>
          \/ Records(field, entries[r][1]) > Records(field, entries[q][1])
          \/ /\ Records(field, entries[r][1]) = Records(field, entries[q][1])
             /\ First(entries[r][1]) < First(entries[q][1])

\* C26: the Dashboard lists of sites, countries and models are sorted
\* most-frequent-first, and keys with equal counts appear in the order of
\* their first occurrence in the record list, also keys made of digits only.
C26_AggregateOrdering ==
  view = "dashboard" =>
    /\ FrequentFirst(stats(assets).sortedSites, "siteID")
    /\ FrequentFirst(stats(assets).sortedCountries, "country")
    /\ FrequentFirst(stats(assets).sortedModels, "model")

\* since caller c read the table, the table has applied only c's own requests
OnlyOwnWrites(c) ==
  writes = call[c].seen + Cardinality({i \in DOMAIN call[c].reqs : call[c].reqs[i].st = "ok"})

\* C27: when an updateAsset that found its record ends with an error, and no
\* other call has written meanwhile, the record is still stored under its
\* original serial number with its original contents, also for a payload that
\* changes serialNumber.
C27_FailedUpdateKeepsRecord ==
  [][\A c \in Callers :
       (/\ call[c].op = "updateAsset"
        /\ call[c].result = "pending"
        /\ call[c].read /= <<>>
        /\ OnlyOwnWrites(c)
        /\ call'[c].result = "rejected")
         => /\ call[c].serials[1] \in DOMAIN table'
            /\ table'[call[c].serials[1]] = call[c].read[1]]_vars

\* C28: a write of updateAsset(serial, U) leaves every stored record other
\* than the one stored under serial present and unchanged, also when U sets
\* serialNumber to a value another record uses.
C28_UpdateTouchesOnlyAddressed ==
  [][\A c \in Callers :
       (call[c].op = "updateAsset" /\ call'[c] /= call[c] /\ table' /= table)
         => \A k \in DOMAIN table \ {call[c].serials[1]} :
              k \in DOMAIN table' /\ table'[k] = table[k]]_vars

\* no handler of the App is running and the first load has been answered
Quiescent ==
  /\ isConnected = "true"
  /\ \A c \in Callers : handler[c] = IdleHandler

\* C29: for a single client whose repository calls all succeed and whose
\* added serial numbers are fresh, whenever no call is in flight the App's
\* list and the table hold the same serial numbers with the same status for
\* each, also when a refresh overlaps an add, an update or a delete.
C29_CacheAgreesWhenQuiescent ==
  Quiescent =>
    /\ ListedSerials(assets) = DOMAIN table
    /\ \A i \in DOMAIN assets : assets[i].status = FetchedItem(table[assets[i].serialNumber]).status

====
